---------------------------- MODULE Spec2Model ----------------------------
(***************************************************************************)
(* A model of the RLM agent loop of rlm-git-commits: the REPL driver       *)
(* (runRepl), the host side of the sandbox (createSandbox), the Worker     *)
(* source it runs (buildWorkerSource) and the git-log argument sanitizer   *)
(* (sanitizeGitLogArgs).                                                   *)
(*                                                                         *)
(* Text is a sequence of tokens: an LLM response is a sequence of lines,   *)
(* a git-log argument a sequence of characters, stdout a sequence of       *)
(* printed lines.  A nullable value is a sequence of length 0 (null) or 1. *)
(***************************************************************************)
EXTENDS Integers, Sequences, FiniteSets, TLC

\* ------------------------------------------------------------------ bounds
\* replConfig.maxIterations ranges over 0..MaxIter
MaxIter == 2
\* replConfig.maxLlmCalls ranges over 0..MaxCalls
MaxCalls == 2
\* the child allocates at most MaxReq request ids in one run
MaxReq == 1
\* and at most MaxWorkerReq when the worker is explored on its own
MaxWorkerReq == 2
\* console.log is called at most MaxStdout times per execute
MaxStdout == 1
\* sanitizeGitLogArgs is applied to lists of at most MaxArgs arguments
MaxArgs == 2
\* query is applied to the index of a git log of at most MaxCommits commits
MaxCommits == 2
\* a given limit parameter ranges over 0..MaxLimit
MaxLimit == 2
\* scopeMatches is applied to keys and patterns of at most MaxScopeLen characters
MaxScopeLen == 3
\* at most MaxAdds successful addEntry calls between two clears
MaxAdds == 2
\* the clock reads 0..MaxClock
MaxClock == 1
\* at most MaxHead commits are made after the first
MaxHead == 3
\* a prompt has at most MaxWords words
MaxWords == 3
\* a commit message has at most MaxLines lines
MaxLines == 4
\* a scope-key list has at most ScopeSampleSize - 1 + MaxTail keys
MaxTail == 2
\* the installer runs at most MaxRuns times on a target
MaxRuns == 2

\* ---------------------------------------------------------------- nullable
None == << >>
Some(x) == << x >>
IsNull(o) == Len(o) = 0
\* JavaScript truthiness of a string | null: non-null and non-empty
Truthy(o) == Len(o) = 1 /\ Len(o[1]) > 0

\* ------------------------------------------------------------------- state
VARIABLES
  \* replConfig
  maxIterations, maxLlmCalls,
  \* the number of request ids the exploration lets the child allocate
  maxRequests,
  \* runRepl
  pc, i, llmCallCount, conversation, trace, code, subCallsBefore, output,
  result, expired,
  \* createSandbox (host side)
  initialized, staleHandlers, inflight, workerAlive, terminateCount,
  \* message channel: init and execute messages to the child, messages to
  \* the host, llm-response and gitlog-response messages to the child
  toChild, toHost, responses,
  \* Worker (child side)
  childReady, nextRequestId, pendingRequests, stdoutBuffer, doneSignal,
  frags, globals,
  \* observations of the injected effects and of the dispatches
  llmEffects, gitCalls, execCount, lastRoot, lastFinal, exitView,
  \* sanitizeGitLogArgs applied to one argument list
  sanArgs, sanOut,
  \* query applied to the index of a commit list, with one parameter set
  qIndex, qParams, qOut,
  \* scopeMatches applied to one stored key and one pattern
  mKey, mPat, mOut,
  \* the working-memory file, the clock, the summaries written, the successful
  \* addEntry calls since the file was last absent, the last call and its result
  wmFile, wmNow, wmSummaries, wmCalls, wmLast,
  \* HEAD, the number of commits made, the trailer-index file, the last call
  ixHead, ixCommits, ixFile, ixLast,
  \* the arguments and the result of the function a specification applies once
  fnArgs, fnOut,
  \* the files of the repository that the configuration and the installer
  \* read and write
  files

replVars == << pc, i, llmCallCount, conversation, trace, code, subCallsBefore,
               output, result >>
hostVars == << initialized, staleHandlers, inflight, workerAlive, terminateCount >>
childVars == << childReady, nextRequestId, pendingRequests, stdoutBuffer,
                doneSignal, frags, globals >>
obsVars == << llmEffects, gitCalls, execCount, lastRoot, lastFinal, exitView >>
cfgVars == << maxIterations, maxLlmCalls, maxRequests >>
sanVars == << sanArgs, sanOut >>
queryVars == << qIndex, qParams, qOut >>
matchVars == << mKey, mPat, mOut >>
\* the variables of the pure functions and of the files, which the REPL run leaves alone
wmVars == << wmFile, wmNow, wmSummaries, wmCalls, wmLast >>
ixVars == << ixHead, ixCommits, ixFile, ixLast >>
fnVars == << fnArgs, fnOut >>
fsVars == << files >>
pureVars == << sanVars, queryVars, matchVars, wmVars, ixVars, fnVars, fsVars >>
\* the variables of the REPL run, which the pure functions leave alone
runVars == << maxIterations, maxLlmCalls, maxRequests, pc, i, llmCallCount, conversation, trace,
             code, subCallsBefore, output, result, expired, initialized,
             staleHandlers, inflight, workerAlive, terminateCount, toChild, toHost,
             responses, childReady, nextRequestId, pendingRequests, stdoutBuffer,
             doneSignal, frags, globals, llmEffects, gitCalls, execCount, lastRoot,
             lastFinal, exitView >>
vars == << cfgVars, replVars, expired, hostVars, toChild, toHost, responses,
           childVars, obsVars, pureVars >>

\* A message the child has posted is handled by the host before anything else
\* happens: no behaviour is lost, as the child could have posted it that much
\* later.  A response the host has posted is handled by the child next: the
\* child posts nothing when it handles one, so the host cannot tell when that
\* was.  The init and execute messages wait in the queue toChild.
Delivered == Len(toHost) = 0 /\ Len(responses) = 0

\* ------------------------------------------------- sanitizeGitLogArgs (pure)
\* An argument is a sequence of one-character strings.
Digits == << "0", "1", "2", "3", "4", "5", "6", "7", "8", "9" >>
IsDigit(c) == \E d \in 1..10 : Digits[d] = c
DigitValue(c) == (CHOOSE d \in 1..10 : Digits[d] = c) - 1
IsSpace(c) == c = " "

\* DANGEROUS_CHARS: | ; & $ backtick backslash.  The backtick and the
\* backslash are written as the one-character tokens "bq" and "bs".
DangerousSet == { "|", ";", "&", "$", "bq", "bs" }
DANGEROUS_CHARS(arg) == \E k \in 1..Len(arg) : arg[k] \in DangerousSet

\* the allow-list with --exec added to it
AllowedWithExec ==
  { << "-", "-", "f", "o", "r", "m", "a", "t" >>,
    << "-", "-", "a", "u", "t", "h", "o", "r" >>,
    << "-", "-", "s", "i", "n", "c", "e" >>,
    << "-", "-", "u", "n", "t", "i", "l" >>,
    << "-", "-", "g", "r", "e", "p" >>,
    << "-", "-", "n", "o", "-", "m", "e", "r", "g", "e", "s" >>,
    << "-", "-", "e", "x", "e", "c" >>,
    << "-", "n" >> }
\* ALLOWED_GIT_LOG_FLAGS
ALLOWED_GIT_LOG_FLAGS ==
  { << "-", "-", "f", "o", "r", "m", "a", "t" >>,
    << "-", "-", "a", "u", "t", "h", "o", "r" >>,
    << "-", "-", "s", "i", "n", "c", "e" >>,
    << "-", "-", "u", "n", "t", "i", "l" >>,
    << "-", "-", "g", "r", "e", "p" >>,
    << "-", "-", "n", "o", "-", "m", "e", "r", "g", "e", "s" >>,
    << "-", "n" >> }

StartsWith(s, p) == Len(s) >= Len(p) /\ SubSeq(s, 1, Len(p)) = p
\* String.prototype.indexOf for one character, 0-based, -1 when absent
IndexOf(s, c) ==
  IF \E k \in 1..Len(s) : s[k] = c
  THEN (CHOOSE k \in 1..Len(s) : s[k] = c /\ \A j \in 1..(k - 1) : s[j] # c) - 1
  ELSE -1
\* the flag portion: arg.slice(0, eqIdx) when there is an '=', else arg
FlagPortion(arg) ==
  LET eqIdx == IndexOf(arg, "=")
  IN IF eqIdx >= 0 THEN SubSeq(arg, 1, eqIdx) ELSE arg

\* parseInt(s, 10): leading white space, an optional sign, then the longest
\* prefix of decimal digits; NaN (here: no value) when there is no digit.
RECURSIVE SkipSpace(_)
SkipSpace(s) == IF Len(s) > 0 /\ IsSpace(s[1]) THEN SkipSpace(Tail(s)) ELSE s
RECURSIVE DigitPrefixValue(_, _)
DigitPrefixValue(s, acc) ==
  IF Len(s) > 0 /\ IsDigit(s[1])
  THEN DigitPrefixValue(Tail(s), 10 * acc + DigitValue(s[1]))
  ELSE acc
ParseInt(s) ==
  LET t == SkipSpace(s)
      neg == Len(t) > 0 /\ t[1] = "-"
      u == IF Len(t) > 0 /\ t[1] \in { "-", "+" } THEN Tail(t) ELSE t
  IN IF Len(u) > 0 /\ IsDigit(u[1])
     THEN [nan |-> FALSE,
           n |-> IF neg THEN 0 - DigitPrefixValue(u, 0) ELSE DigitPrefixValue(u, 0)]
     ELSE [nan |-> TRUE, n |-> 0]
\* String(n) for an integer n >= 0
RECURSIVE NumberToString(_)
NumberToString(n) ==
  IF n < 10 THEN << Digits[n + 1] >>
  ELSE Append(NumberToString(n \div 10), Digits[(n % 10) + 1])
\* the cap left out
MinUncapped(a, b) == a
Min(a, b) == IF a < b THEN a ELSE b

SanOk(value) == [ok |-> TRUE, value |-> value, error |-> "none"]
SanFail(kind) == [ok |-> FALSE, value |-> << >>, error |-> kind]

\* the check made on every argument the loop visits
RejectsDangerous(arg) == DANGEROUS_CHARS(arg)

\* the loop of sanitizeGitLogArgs from index k (1-based) with the list sanitized so far
RECURSIVE SanitizeFrom(_, _, _)
SanitizeFrom(args, k, sanitized) ==
  IF k > Len(args) THEN SanOk(sanitized)
  ELSE LET arg == args[k] IN
    IF RejectsDangerous(arg) THEN SanFail("dangerous-character")
    ELSE IF StartsWith(arg, << "-", "-" >>)
      THEN IF FlagPortion(arg) \notin ALLOWED_GIT_LOG_FLAGS
           THEN SanFail("disallowed-flag")
           ELSE SanitizeFrom(args, k + 1, Append(sanitized, arg))
    ELSE IF arg = << "-", "n" >>
      THEN IF k + 1 <= Len(args)
           THEN LET p == ParseInt(args[k + 1]) IN
                IF p.nan \/ p.n < 1 THEN SanFail("invalid-n")
                ELSE SanitizeFrom(args, k + 2,
                       sanitized \o << arg, NumberToString(Min(p.n, 50)) >>)
           ELSE SanitizeFrom(args, k + 1, Append(sanitized, arg))
    ELSE IF StartsWith(arg, << "-" >>) /\ Len(arg) = 2
      THEN SanFail("disallowed-flag")
    ELSE SanitizeFrom(args, k + 1, Append(sanitized, arg))

sanitizeGitLogArgs(args) == SanitizeFrom(args, 1, << >>)

\* the arguments the sanitizer is tried on
ArgPool ==
  { << "-", "-", "f", "o", "r", "m", "a", "t" >>,
    << "-", "-", "g", "r", "e", "p", "=", "a" >>,
    << "-", "-", "g", "r", "e", "p", "=", "a", ";", "b" >>,
    << "-", "-", "e", "x", "e", "c" >>,
    << "-", "-", "e", "x", "e", "c", "=", "a" >>,
    << "-", "-" >>,
    << "-", "n" >>,
    << "5" >>, << "0" >>, << "1", "0", "0" >>, << "5", "1" >>, << "0", "7" >>,
    << "-", "5" >>, << " ", "5" >>,
    << "5", ";", "a" >>, << "5", "|", "a" >>, << "5", "a" >>,
    << "a" >>, << "a", "|", "b" >>, << "$", "a" >>, << "bq" >>, << "bs" >>,
    << "a", "&" >>,
    << "-", "p" >>, << "-", "p", "a" >>, << "-" >> }
RECURSIVE ListsUpTo(_, _)
ListsUpTo(S, n) ==
  IF n = 0 THEN { << >> }
  ELSE LET shorter == ListsUpTo(S, n - 1)
       IN shorter \cup { Append(l, a) : l \in { x \in shorter : Len(x) = n - 1 }, a \in S }
ArgLists == ListsUpTo(ArgPool, MaxArgs)

\* ------------------------------------------------- scopeMatches, query (pure)
\* Scope keys, session ids, keywords and decided-against texts are sequences
\* of characters; a hash is the position of the commit in the git log.

UpperCase ==
  << "A", "B", "C", "D", "E", "F", "G", "H", "I", "J", "K", "L", "M", "N", "O", "P", "Q",
     "R", "S", "T", "U", "V", "W", "X", "Y", "Z" >>
LowerCase ==
  << "a", "b", "c", "d", "e", "f", "g", "h", "i", "j", "k", "l", "m", "n", "o", "p", "q",
     "r", "s", "t", "u", "v", "w", "x", "y", "z" >>
RECURSIVE UpperIndex(_, _)
UpperIndex(c, k) ==
  IF k > Len(UpperCase) THEN 0
  ELSE IF UpperCase[k] = c THEN k ELSE UpperIndex(c, k + 1)
\* String.prototype.toLowerCase
toLowerCase(str) ==
  [k \in 1..Len(str) |->
     IF UpperIndex(str[k], 1) = 0 THEN str[k] ELSE LowerCase[UpperIndex(str[k], 1)]]

\* a key that merely begins with the pattern
scopeMatchesPrefix(sv, pat) == StartsWith(toLowerCase(sv), toLowerCase(pat))
scopeMatches(sv, pat) ==
  LET s == toLowerCase(sv)
      p == toLowerCase(pat)
  IN  \/ s = p
      \/ /\ StartsWith(s, p)
         /\ Len(s) >= Len(p) + 1
         /\ s[Len(p) + 1] = "/"

\* \w of the regular expression
WordChars == { "a", "b", "x", "A", "B", "X" }
\* \b at position k (between character k and character k + 1)
WordBoundaryAt(text, k) ==
  LET before == k >= 1 /\ k <= Len(text) /\ text[k] \in WordChars
      after == k + 1 >= 1 /\ k + 1 <= Len(text) /\ text[k + 1] \in WordChars
  IN  before # after
\* the escaped keyword matches itself, letters without regard to case
wordBoundaryMatch(text, kw) ==
  \E k \in 0..Len(text) :
    /\ k + Len(kw) <= Len(text)
    /\ toLowerCase(SubSeq(text, k + 1, k + Len(kw))) = toLowerCase(kw)
    /\ WordBoundaryAt(text, k)
    /\ WordBoundaryAt(text, k + Len(kw))

Range(s) == { s[k] : k \in 1..Len(s) }
\* the elements of a list that lie in a set, in the order of the list
RECURSIVE Keep(_, _)
Keep(s, S) ==
  IF Len(s) = 0 THEN << >>
  ELSE IF s[1] \in S THEN << s[1] >> \o Keep(Tail(s), S)
  ELSE Keep(Tail(s), S)
\* the order in which a Set holds the elements added from a list
RECURSIVE SetOrder(_)
SetOrder(s) ==
  IF Len(s) = 0 THEN << >>
  ELSE LET front == SetOrder(SubSeq(s, 1, Len(s) - 1)) IN
       IF s[Len(s)] \in Range(front) THEN front ELSE Append(front, s[Len(s)])
RECURSIVE Flatten(_)
Flatten(ss) == IF Len(ss) = 0 THEN << >> ELSE ss[1] \o Flatten(Tail(ss))
\* Array.prototype.slice(0, end)
Slice(s, end) ==
  LET e == IF end < 0 THEN (IF Len(s) + end < 0 THEN 0 ELSE Len(s) + end)
           ELSE (IF end > Len(s) THEN Len(s) ELSE end)
  IN  SubSeq(s, 1, e)

Intents == { "fix-defect", "enable-capability" }
\* the hashes of a commit list that satisfy a test, in log order
RECURSIVE Ascending(_)
Ascending(S) ==
  IF S = {} THEN << >>
  ELSE LET m == CHOOSE x \in S : \A y \in S : x <= y
       IN  << m >> \o Ascending(S \ { m })

IndexedCommit(h, c) ==
  [hash |-> h, intent |-> c.intent, scope |-> c.scope, session |-> c.session,
   decidedAgainst |-> c.decidedAgainst]

\* every commit filed under withDecidedAgainst, whether it has an entry or not
buildIndexAllDecided(cs) ==
  LET hs == 1..Len(cs) IN
  [ commits |-> [h \in hs |-> IndexedCommit(h, cs[h])],
    byIntent |-> [it \in Intents |-> Ascending({ h \in hs : cs[h].intent = Some(it) })],
    scopeKeys |-> SetOrder(Flatten([h \in hs |-> cs[h].scope])),
    byScope |-> [sk \in UNION { Range(cs[h].scope) : h \in hs } |->
                   Ascending({ h \in hs : sk \in Range(cs[h].scope) })],
    bySession |-> [se \in { cs[h].session[1] : h \in { g \in hs : Len(cs[g].session) = 1 } } |->
                     Ascending({ h \in hs : cs[h].session = Some(se) })],
    withDecidedAgainst |-> Ascending(hs) ]
\* the index of a commit list: every bucket lists its hashes in log order,
\* the keys of byScope and bySession in the order of their first commit
buildIndex(cs) ==
  LET hs == 1..Len(cs) IN
  [ commits |-> [h \in hs |-> IndexedCommit(h, cs[h])],
    byIntent |-> [it \in Intents |-> Ascending({ h \in hs : cs[h].intent = Some(it) })],
    scopeKeys |-> SetOrder(Flatten([h \in hs |-> cs[h].scope])),
    byScope |-> [sk \in UNION { Range(cs[h].scope) : h \in hs } |->
                   Ascending({ h \in hs : sk \in Range(cs[h].scope) })],
    bySession |-> [se \in { cs[h].session[1] : h \in { g \in hs : Len(cs[g].session) = 1 } } |->
                     Ascending({ h \in hs : cs[h].session = Some(se) })],
    withDecidedAgainst |-> Ascending({ h \in hs : Len(cs[h].decidedAgainst) > 0 }) ]

\* intersect: the first filter fills the candidate Set, a later one deletes from it
intersect(cands, hs) ==
  IF IsNull(cands) THEN Some(SetOrder(hs)) ELSE Some(Keep(cands[1], Range(hs)))

\* the hashes each filter matches, as the code collects them
IntentHashes(idx, intents) ==
  SetOrder(Flatten([k \in 1..Len(intents) |->
     IF intents[k] \in DOMAIN idx.byIntent THEN idx.byIntent[intents[k]] ELSE << >>]))
SessionHashes(idx, session) ==
  IF session \in DOMAIN idx.bySession THEN idx.bySession[session] ELSE << >>
DecidedAgainstHashes(idx, kw) ==
  Keep(idx.withDecidedAgainst,
       { h \in DOMAIN idx.commits :
           \E k \in 1..Len(idx.commits[h].decidedAgainst) :
              wordBoundaryMatch(idx.commits[h].decidedAgainst[k], kw) })
ScopeHashesUnder(idx, pat) ==
  Flatten([k \in 1..Len(idx.scopeKeys) |->
     IF scopeMatches(idx.scopeKeys[k], pat) THEN idx.byScope[idx.scopeKeys[k]] ELSE << >>])

\* the tests that decide whether a filter is present
HasIntents(p) == Len(p.intents) = 1 /\ Len(p.intents[1]) > 0
HasSession(p) == Truthy(p.session)
HasDecidedAgainst(p) == Truthy(p.decidedAgainst)
HasScope(p) == Truthy(p.scope)

DefaultLimit == 20
\* p.limit || 20
LimitOf(p) == IF Len(p.limit) = 1 /\ p.limit[1] # 0 THEN p.limit[1] ELSE DefaultLimit

\* every hash of the index in place of the empty list
AllCandidates(idx) == Ascending(DOMAIN idx.commits)
\* the answer when no filter was present
NoCandidates(idx) == << >>

queryIndexForHashes(idx, p) ==
  LET c0 == None
      c1 == IF HasIntents(p) THEN intersect(c0, IntentHashes(idx, p.intents[1])) ELSE c0
      c2 == IF HasSession(p) THEN intersect(c1, SessionHashes(idx, p.session[1])) ELSE c1
      c3 == IF HasDecidedAgainst(p)
            THEN intersect(c2, DecidedAgainstHashes(idx, p.decidedAgainst[1])) ELSE c2
      c4 == IF HasScope(p) THEN intersect(c3, ScopeHashesUnder(idx, p.scope[1])) ELSE c3
  IN  IF IsNull(c4) THEN NoCandidates(idx) ELSE Slice(c4[1], LimitOf(p))

\* query of the worker: the commits of the hashes, a hash without a commit dropped
query(index, params) ==
  IF IsNull(index) THEN << >>
  ELSE LET hs == queryIndexForHashes(index[1], params) IN
       [k \in 1..Len(Keep(hs, DOMAIN index[1].commits)) |->
          index[1].commits[Keep(hs, DOMAIN index[1].commits)[k]]]

\* inputs
ScopeA == << "a" >>
ScopeAB == << "a", "/", "b" >>
ScopeAX == << "a", "x" >>
ScopeUpperA == << "A" >>
SessionS == << "s" >>
SessionT == << "t" >>
TextX == << "x" >>
TextXB == << "x", "b" >>
TextBX == << "b", " ", "X" >>
Commit(intent, scope, session, da) ==
  [intent |-> intent, scope |-> scope, session |-> session, decidedAgainst |-> da]
CommitPool ==
  { Commit(Some("fix-defect"), << ScopeA >>, Some(SessionS), << >>),
    Commit(Some("enable-capability"), << ScopeAB >>, Some(SessionS), << TextX >>),
    Commit(Some("fix-defect"), << ScopeAX >>, Some(SessionT), << TextXB >>),
    Commit(None, << ScopeA, ScopeAB >>, None, << TextXB, TextBX >>),
    Commit(Some("enable-capability"), << ScopeUpperA >>, Some(SessionT), << >>),
    Commit(Some("fix-defect"), << ScopeAB, ScopeAX >>, None, << TextBX >>) }
CommitLists == ListsUpTo(CommitPool, MaxCommits)
Indexes == { None } \cup { Some(buildIndex(cs)) : cs \in CommitLists }
ParamSets ==
  [ intents : { None, Some(<< >>), Some(<< "fix-defect" >>),
                Some(<< "enable-capability", "fix-defect" >>) },
    session : { None, Some(<< >>), Some(SessionS) },
    decidedAgainst : { None, Some(TextX) },
    scope : { None, Some(<< >>), Some(ScopeA), Some(ScopeUpperA) },
    limit : { None } \cup { Some(n) : n \in 0..MaxLimit } ]
NoParams ==
  [intents |-> None, session |-> None, decidedAgainst |-> None, scope |-> None,
   limit |-> None]
ScopeChars == { "a", "A", "x", "/" }
ScopeStrings == ListsUpTo(ScopeChars, MaxScopeLen)

\* --------------------------------------------------------- working memory
\* The file .git/info/working-memory.json is absent (None) or holds one
\* WorkingMemory; the instant read by new Date() is a number.

Sessions == { "s1", "s2" }
EntryTexts == { "e1", "e2" }
Ok(value) == [ok |-> TRUE, value |-> value]
Fail == [ok |-> FALSE, value |-> None]

\* the session test left out
loadWorkingMemoryAnySession(file, sessionId) ==
  IF IsNull(file) THEN Ok(None) ELSE Ok(file)
\* readTextFile throws when the file does not exist
loadWorkingMemory(file, sessionId) ==
  IF IsNull(file) THEN Ok(None)
  ELSE IF file[1].sessionId # sessionId THEN Ok(None)
  ELSE IF file[1].version # 1 THEN Ok(None)
  ELSE Ok(file)

\* the new entry in place of the appended list
addEntryReplacing(file, sessionId, entry, now) ==
  [version |-> 1, sessionId |-> sessionId, created |-> now, updated |-> now,
   entries |-> << [text |-> entry, timestamp |-> now] >>]
\* the memory addEntry saves
addEntry(file, sessionId, entry, now) ==
  LET existing == loadWorkingMemory(file, sessionId)
      fullEntry == [text |-> entry, timestamp |-> now]
  IN  IF ~IsNull(existing.value)
      THEN [existing.value[1] EXCEPT !.updated = now,
                                     !.entries = Append(existing.value[1].entries, fullEntry)]
      ELSE [version |-> 1, sessionId |-> sessionId, created |-> now, updated |-> now,
            entries |-> << fullEntry >>]

NoCall == [op |-> "none", session |-> "none", ok |-> TRUE, value |-> None]
Call(op, session, ok, value) == [op |-> op, session |-> session, ok |-> ok, value |-> value]

\* working-memory-write (or a hook) adds an entry; the save may fail
AddEntry ==
  \E s \in Sessions, e \in EntryTexts, now \in wmNow..MaxClock, saved \in BOOLEAN :
    /\ Len(wmCalls) < MaxAdds
    /\ wmNow' = now
    /\ IF saved
       THEN /\ wmFile' = Some(addEntry(wmFile, s, e, now))
            /\ wmCalls' = Append(wmCalls, [session |-> s, text |-> e, timestamp |-> now])
            /\ wmLast' = Call("add", s, TRUE, wmFile')
       ELSE /\ UNCHANGED << wmFile, wmCalls >>
            /\ wmLast' = Call("add", s, FALSE, None)
    /\ UNCHANGED << runVars, fsVars, fnVars, sanVars, queryVars, matchVars, ixVars, wmSummaries >>

LoadMemory ==
  \E s \in Sessions :
    /\ wmLast' = Call("load", s, loadWorkingMemory(wmFile, s).ok,
                      loadWorkingMemory(wmFile, s).value)
    /\ UNCHANGED << runVars, fsVars, fnVars, sanVars, queryVars, matchVars, ixVars, wmFile, wmNow, wmCalls,
                    wmSummaries >>

\* working-memory-write --clear: a missing file is no error
ClearMemory ==
  \E removed \in BOOLEAN :
    /\ IF removed
       THEN wmFile' = None /\ wmCalls' = << >>
       ELSE UNCHANGED << wmFile, wmCalls >>
    /\ wmLast' = Call("clear", "none", removed, None)
    /\ UNCHANGED << runVars, fsVars, fnVars, sanVars, queryVars, matchVars, ixVars, wmNow, wmSummaries >>

\* main of git-memory-consolidate run as the Stop hook (no --commit-hints):
\* the value of the call is the memory it consolidated, ok says the summary was written
StopHook ==
  \E active \in BOOLEAN, sid \in Sessions \cup { "" }, gitDir \in BOOLEAN, written \in BOOLEAN :
    LET loaded == loadWorkingMemory(wmFile, sid) IN
    /\ IF \/ active
          \/ sid = ""
          \/ ~loaded.ok
          \/ IsNull(loaded.value)
       THEN /\ wmLast' = Call("stop", sid, FALSE, None)
            /\ UNCHANGED wmSummaries
       ELSE IF Len(loaded.value[1].entries) = 0 \/ ~gitDir
       THEN /\ wmLast' = Call("stop", sid, FALSE, loaded.value)
            /\ UNCHANGED wmSummaries
       ELSE /\ wmLast' = Call("stop", sid, written, loaded.value)
            /\ wmSummaries' = IF written THEN wmSummaries \cup { sid } ELSE wmSummaries
    /\ UNCHANGED << runVars, fsVars, fnVars, sanVars, queryVars, matchVars, ixVars, wmFile, wmNow, wmCalls >>

\* ------------------------------------------------- trailer index freshness
\* HEAD is the number of commits made; the file .git/info/trailer-index.json
\* is absent (None) or holds the headCommit stamped when the index was built.

\* loadIndex: the stored headCommit is compared with git rev-parse HEAD
loadIndex(file, head) ==
  IF IsNull(file) THEN Ok(None)
  ELSE IF file[1].headCommit # head THEN Ok(None)
  ELSE Ok(file)

NoOutput == "none"
\* the hook going on without an index
bridgeOutputWithoutIndex(input, isBash, command, parsed, indexResult, ctx, enabled, llmOk) ==
  IF ~input \/ ~isBash \/ ~command \/ ~parsed \/ ~ctx THEN NoOutput
  ELSE IF enabled /\ llmOk THEN "llm-enhanced"
  ELSE "heuristic"
\* what main of git-memory-bridge prints
bridgeOutput(input, isBash, command, parsed, indexResult, ctx, enabled, llmOk) ==
  IF ~input THEN NoOutput
  ELSE IF ~isBash THEN NoOutput
  ELSE IF ~command THEN NoOutput
  ELSE IF ~parsed THEN NoOutput
  ELSE IF ~indexResult.ok \/ IsNull(indexResult.value) THEN NoOutput
  ELSE IF ~ctx THEN NoOutput
  ELSE IF enabled /\ llmOk THEN "llm-enhanced"
  ELSE "heuristic"

\* git commit: HEAD moves
GitCommit ==
  /\ ixCommits < MaxHead
  /\ ixCommits' = ixCommits + 1
  /\ ixHead' = ixCommits + 1
  /\ ixLast' = Call("commit", "none", TRUE, None)
  /\ UNCHANGED << runVars, fsVars, fnVars, sanVars, queryVars, matchVars, wmVars, ixFile >>

\* git checkout, git reset: HEAD moves to an earlier commit
GitCheckout ==
  \E h \in 0..ixCommits :
    /\ h # ixHead
    /\ ixHead' = h
    /\ ixLast' = Call("checkout", "none", TRUE, None)
    /\ UNCHANGED << runVars, fsVars, fnVars, sanVars, queryVars, matchVars, wmVars, ixFile, ixCommits >>

\* deno task index:build: headCommit is stamped from HEAD
BuildIndex ==
  /\ ixFile' = Some([version |-> 1, headCommit |-> ixHead])
  /\ ixLast' = Call("build", "none", TRUE, ixFile')
  /\ UNCHANGED << runVars, fsVars, fnVars, sanVars, queryVars, matchVars, wmVars, ixHead, ixCommits >>

LoadIndex ==
  /\ ixLast' = Call("load", "none", loadIndex(ixFile, ixHead).ok, loadIndex(ixFile, ixHead).value)
  /\ UNCHANGED << runVars, fsVars, fnVars, sanVars, queryVars, matchVars, wmVars, ixHead, ixCommits, ixFile >>

\* the PostToolUse hook; the value of the call is the index it loaded
BridgeHook ==
  \E input \in BOOLEAN, isBash \in BOOLEAN, command \in BOOLEAN, parsed \in BOOLEAN,
     ctx \in BOOLEAN, enabled \in BOOLEAN, llmOk \in BOOLEAN :
    /\ ixLast' = Call("bridge",
                      bridgeOutput(input, isBash, command, parsed,
                                   loadIndex(ixFile, ixHead), ctx, enabled, llmOk),
                      TRUE, loadIndex(ixFile, ixHead).value)
    /\ UNCHANGED << runVars, fsVars, fnVars, sanVars, queryVars, matchVars, wmVars, ixHead, ixCommits, ixFile >>

\* ----------------------------------------------- extractPromptSignals (pure)
\* A prompt is the sequence of its whitespace-separated words, each word, token,
\* scope key and intent name a sequence of characters.

\* INTENT_SYNONYMS: pairs of a token and the intent it stands for
INTENT_SYNONYMS ==
  { << << "f", "i", "x" >>, << "f", "i", "x", "-", "d", "e", "f", "e", "c", "t" >> >>,
    << << "b", "u", "g" >>, << "f", "i", "x", "-", "d", "e", "f", "e", "c", "t" >> >>,
    << << "b", "r", "o", "k", "e", "n" >>, << "f", "i", "x", "-", "d", "e", "f", "e", "c", "t" >> >>,
    << << "c", "r", "a", "s", "h" >>, << "f", "i", "x", "-", "d", "e", "f", "e", "c", "t" >> >>,
    << << "e", "r", "r", "o", "r" >>, << "f", "i", "x", "-", "d", "e", "f", "e", "c", "t" >> >>,
    << << "i", "s", "s", "u", "e" >>, << "f", "i", "x", "-", "d", "e", "f", "e", "c", "t" >> >>,
    << << "d", "e", "b", "u", "g" >>, << "f", "i", "x", "-", "d", "e", "f", "e", "c", "t" >> >>,
    << << "r", "e", "g", "r", "e", "s", "s", "i", "o", "n" >>, << "f", "i", "x", "-", "d", "e", "f", "e", "c", "t" >> >>,
    << << "p", "a", "t", "c", "h" >>, << "f", "i", "x", "-", "d", "e", "f", "e", "c", "t" >> >>,
    << << "a", "d", "d" >>, << "e", "n", "a", "b", "l", "e", "-", "c", "a", "p", "a", "b", "i", "l", "i", "t", "y" >> >>,
    << << "f", "e", "a", "t", "u", "r", "e" >>, << "e", "n", "a", "b", "l", "e", "-", "c", "a", "p", "a", "b", "i", "l", "i", "t", "y" >> >>,
    << << "i", "m", "p", "l", "e", "m", "e", "n", "t" >>, << "e", "n", "a", "b", "l", "e", "-", "c", "a", "p", "a", "b", "i", "l", "i", "t", "y" >> >>,
    << << "c", "r", "e", "a", "t", "e" >>, << "e", "n", "a", "b", "l", "e", "-", "c", "a", "p", "a", "b", "i", "l", "i", "t", "y" >> >>,
    << << "n", "e", "w" >>, << "e", "n", "a", "b", "l", "e", "-", "c", "a", "p", "a", "b", "i", "l", "i", "t", "y" >> >>,
    << << "s", "u", "p", "p", "o", "r", "t" >>, << "e", "n", "a", "b", "l", "e", "-", "c", "a", "p", "a", "b", "i", "l", "i", "t", "y" >> >>,
    << << "e", "n", "a", "b", "l", "e" >>, << "e", "n", "a", "b", "l", "e", "-", "c", "a", "p", "a", "b", "i", "l", "i", "t", "y" >> >>,
    << << "r", "e", "f", "a", "c", "t", "o", "r" >>, << "r", "e", "s", "t", "r", "u", "c", "t", "u", "r", "e" >> >>,
    << << "r", "e", "s", "t", "r", "u", "c", "t", "u", "r", "e" >>, << "r", "e", "s", "t", "r", "u", "c", "t", "u", "r", "e" >> >>,
    << << "r", "e", "o", "r", "g", "a", "n", "i", "z", "e" >>, << "r", "e", "s", "t", "r", "u", "c", "t", "u", "r", "e" >> >>,
    << << "r", "e", "n", "a", "m", "e" >>, << "r", "e", "s", "t", "r", "u", "c", "t", "u", "r", "e" >> >>,
    << << "m", "o", "v", "e" >>, << "r", "e", "s", "t", "r", "u", "c", "t", "u", "r", "e" >> >>,
    << << "e", "x", "t", "r", "a", "c", "t" >>, << "r", "e", "s", "t", "r", "u", "c", "t", "u", "r", "e" >> >>,
    << << "s", "i", "m", "p", "l", "i", "f", "y" >>, << "r", "e", "s", "t", "r", "u", "c", "t", "u", "r", "e" >> >>,
    << << "c", "l", "e", "a", "n", "u", "p" >>, << "r", "e", "s", "t", "r", "u", "c", "t", "u", "r", "e" >> >>,
    << << "i", "m", "p", "r", "o", "v", "e" >>, << "i", "m", "p", "r", "o", "v", "e", "-", "q", "u", "a", "l", "i", "t", "y" >> >>,
    << << "o", "p", "t", "i", "m", "i", "z", "e" >>, << "i", "m", "p", "r", "o", "v", "e", "-", "q", "u", "a", "l", "i", "t", "y" >> >>,
    << << "p", "e", "r", "f", "o", "r", "m", "a", "n", "c", "e" >>, << "i", "m", "p", "r", "o", "v", "e", "-", "q", "u", "a", "l", "i", "t", "y" >> >>,
    << << "p", "e", "r", "f" >>, << "i", "m", "p", "r", "o", "v", "e", "-", "q", "u", "a", "l", "i", "t", "y" >> >>,
    << << "f", "a", "s", "t", "e", "r" >>, << "i", "m", "p", "r", "o", "v", "e", "-", "q", "u", "a", "l", "i", "t", "y" >> >>,
    << << "s", "p", "e", "e", "d" >>, << "i", "m", "p", "r", "o", "v", "e", "-", "q", "u", "a", "l", "i", "t", "y" >> >>,
    << << "q", "u", "a", "l", "i", "t", "y" >>, << "i", "m", "p", "r", "o", "v", "e", "-", "q", "u", "a", "l", "i", "t", "y" >> >>,
    << << "d", "o", "c", "u", "m", "e", "n", "t" >>, << "d", "o", "c", "u", "m", "e", "n", "t" >> >>,
    << << "d", "o", "c", "s" >>, << "d", "o", "c", "u", "m", "e", "n", "t" >> >>,
    << << "r", "e", "a", "d", "m", "e" >>, << "d", "o", "c", "u", "m", "e", "n", "t" >> >>,
    << << "c", "o", "m", "m", "e", "n", "t" >>, << "d", "o", "c", "u", "m", "e", "n", "t" >> >>,
    << << "g", "u", "i", "d", "e" >>, << "d", "o", "c", "u", "m", "e", "n", "t" >> >>,
    << << "c", "o", "n", "f", "i", "g" >>, << "c", "o", "n", "f", "i", "g", "u", "r", "e", "-", "i", "n", "f", "r", "a" >> >>,
    << << "c", "o", "n", "f", "i", "g", "u", "r", "e" >>, << "c", "o", "n", "f", "i", "g", "u", "r", "e", "-", "i", "n", "f", "r", "a" >> >>,
    << << "c", "i" >>, << "c", "o", "n", "f", "i", "g", "u", "r", "e", "-", "i", "n", "f", "r", "a" >> >>,
    << << "d", "e", "p", "l", "o", "y" >>, << "c", "o", "n", "f", "i", "g", "u", "r", "e", "-", "i", "n", "f", "r", "a" >> >>,
    << << "b", "u", "i", "l", "d" >>, << "c", "o", "n", "f", "i", "g", "u", "r", "e", "-", "i", "n", "f", "r", "a" >> >>,
    << << "i", "n", "f", "r", "a" >>, << "c", "o", "n", "f", "i", "g", "u", "r", "e", "-", "i", "n", "f", "r", "a" >> >>,
    << << "p", "i", "p", "e", "l", "i", "n", "e" >>, << "c", "o", "n", "f", "i", "g", "u", "r", "e", "-", "i", "n", "f", "r", "a" >> >>,
    << << "e", "x", "p", "l", "o", "r", "e" >>, << "e", "x", "p", "l", "o", "r", "e" >> >>,
    << << "i", "n", "v", "e", "s", "t", "i", "g", "a", "t", "e" >>, << "e", "x", "p", "l", "o", "r", "e" >> >>,
    << << "r", "e", "s", "e", "a", "r", "c", "h" >>, << "e", "x", "p", "l", "o", "r", "e" >> >>,
    << << "p", "r", "o", "t", "o", "t", "y", "p", "e" >>, << "e", "x", "p", "l", "o", "r", "e" >> >>,
    << << "s", "p", "i", "k", "e" >>, << "e", "x", "p", "l", "o", "r", "e" >> >>,
    << << "b", "l", "o", "c", "k", "e", "r" >>, << "r", "e", "s", "o", "l", "v", "e", "-", "b", "l", "o", "c", "k", "e", "r" >> >>,
    << << "b", "l", "o", "c", "k", "e", "d" >>, << "r", "e", "s", "o", "l", "v", "e", "-", "b", "l", "o", "c", "k", "e", "r" >> >>,
    << << "u", "n", "b", "l", "o", "c", "k" >>, << "r", "e", "s", "o", "l", "v", "e", "-", "b", "l", "o", "c", "k", "e", "r" >> >>,
    << << "w", "o", "r", "k", "a", "r", "o", "u", "n", "d" >>, << "r", "e", "s", "o", "l", "v", "e", "-", "b", "l", "o", "c", "k", "e", "r" >> >> }

STOP_WORDS ==
  { << "a" >>,
    << "a", "n" >>,
    << "t", "h", "e" >>,
    << "i", "s" >>,
    << "a", "r", "e" >>,
    << "w", "a", "s" >>,
    << "w", "e", "r", "e" >>,
    << "b", "e" >>,
    << "b", "e", "e", "n" >>,
    << "b", "e", "i", "n", "g" >>,
    << "h", "a", "v", "e" >>,
    << "h", "a", "s" >>,
    << "h", "a", "d" >>,
    << "d", "o" >>,
    << "d", "o", "e", "s" >>,
    << "d", "i", "d" >>,
    << "w", "i", "l", "l" >>,
    << "w", "o", "u", "l", "d" >>,
    << "c", "o", "u", "l", "d" >>,
    << "s", "h", "o", "u", "l", "d" >>,
    << "m", "a", "y" >>,
    << "m", "i", "g", "h", "t" >>,
    << "s", "h", "a", "l", "l" >>,
    << "c", "a", "n" >>,
    << "n", "e", "e", "d" >>,
    << "m", "u", "s", "t" >>,
    << "i" >>,
    << "m", "e" >>,
    << "m", "y" >>,
    << "w", "e" >>,
    << "o", "u", "r" >>,
    << "y", "o", "u" >>,
    << "y", "o", "u", "r" >>,
    << "i", "t" >>,
    << "i", "t", "s" >>,
    << "h", "e" >>,
    << "s", "h", "e" >>,
    << "t", "h", "e", "y" >>,
    << "t", "h", "e", "m" >>,
    << "t", "h", "e", "i", "r" >>,
    << "t", "h", "i", "s" >>,
    << "t", "h", "a", "t" >>,
    << "t", "h", "e", "s", "e" >>,
    << "t", "h", "o", "s", "e" >>,
    << "i", "n" >>,
    << "o", "n" >>,
    << "a", "t" >>,
    << "t", "o" >>,
    << "f", "o", "r" >>,
    << "o", "f" >>,
    << "w", "i", "t", "h" >>,
    << "b", "y" >>,
    << "f", "r", "o", "m" >>,
    << "u", "p" >>,
    << "a", "b", "o", "u", "t" >>,
    << "i", "n", "t", "o" >>,
    << "t", "h", "r", "o", "u", "g", "h" >>,
    << "d", "u", "r", "i", "n", "g" >>,
    << "b", "e", "f", "o", "r", "e" >>,
    << "a", "f", "t", "e", "r" >>,
    << "a", "n", "d" >>,
    << "b", "u", "t" >>,
    << "o", "r" >>,
    << "n", "o", "t" >>,
    << "n", "o" >>,
    << "i", "f" >>,
    << "t", "h", "e", "n" >>,
    << "s", "o" >>,
    << "t", "o", "o" >>,
    << "w", "h", "a", "t" >>,
    << "w", "h", "i", "c", "h" >>,
    << "w", "h", "o" >>,
    << "w", "h", "e", "n" >>,
    << "w", "h", "e", "r", "e" >>,
    << "h", "o", "w" >>,
    << "w", "h", "y" >>,
    << "a", "l", "l" >>,
    << "e", "a", "c", "h" >>,
    << "e", "v", "e", "r", "y" >>,
    << "b", "o", "t", "h" >>,
    << "s", "o", "m", "e" >>,
    << "a", "n", "y" >>,
    << "m", "o", "s", "t" >>,
    << "a", "l", "s", "o" >>,
    << "j", "u", "s", "t" >>,
    << "o", "n", "l", "y" >>,
    << "v", "e", "r", "y" >>,
    << "s", "t", "i", "l", "l" >>,
    << "a", "l", "r", "e", "a", "d", "y" >>,
    << "n", "o", "w" >>,
    << "h", "e", "r", "e" >>,
    << "t", "h", "e", "r", "e" >>,
    << "o", "u", "t" >>,
    << "g", "e", "t" >>,
    << "m", "a", "k", "e" >>,
    << "l", "i", "k", "e" >>,
    << "u", "s", "e" >> }

\* the characters the tokenizer keeps: [a-z0-9/\-_]
TokenChars ==
  { "a", "b", "c", "d", "e", "f", "g", "h", "i", "j", "k", "l", "m", "n", "o", "p", "q",
    "r", "s", "t", "u", "v", "w", "x", "y", "z", "0", "1", "2", "3", "4", "5", "6", "7",
    "8", "9", "/", "-", "_" }
\* every other character becomes a space
Blanked(str) == [k \in 1..Len(str) |-> IF str[k] \in TokenChars THEN str[k] ELSE " "]
\* split(/\s+/): the pieces between the spaces
RECURSIVE SplitSpaces(_, _)
SplitSpaces(str, piece) ==
  IF Len(str) = 0 THEN (IF Len(piece) = 0 THEN << >> ELSE << piece >>)
  ELSE IF str[1] = " "
    THEN (IF Len(piece) = 0 THEN << >> ELSE << piece >>) \o SplitSpaces(Tail(str), << >>)
    ELSE SplitSpaces(Tail(str), Append(piece, str[1]))
\* the pieces of more than one character
RECURSIVE LongPieces(_)
LongPieces(ps) ==
  IF Len(ps) = 0 THEN << >>
  ELSE IF Len(ps[1]) > 1 THEN << ps[1] >> \o LongPieces(Tail(ps))
  ELSE LongPieces(Tail(ps))
tokenize(prompt) ==
  Flatten([k \in 1..Len(prompt) |->
             LongPieces(SplitSpaces(Blanked(toLowerCase(prompt[k])), << >>))])

\* INTENT_SYNONYMS.get(token)
SynonymIntent(token) ==
  IF \E pr \in INTENT_SYNONYMS : pr[1] = token
  THEN Some((CHOOSE pr \in INTENT_SYNONYMS : pr[1] = token)[2])
  ELSE None
\* the intents of the tokens that are synonyms, token by token
RECURSIVE IntentsOf(_)
IntentsOf(tokens) ==
  IF Len(tokens) = 0 THEN << >>
  ELSE SynonymIntent(tokens[1]) \o IntentsOf(Tail(tokens))
MatchesScopeKey(token, scopeKeys) ==
  \E k \in 1..Len(scopeKeys) : scopeMatches(scopeKeys[k], token)
Signals(scopeHints, intentHints, keywords) ==
  [scopeHints |-> scopeHints, intentHints |-> intentHints, keywords |-> keywords]

\* the consumed tokens left among the keywords
extractPromptSignalsKeepingConsumed(prompt, scopeKeys) ==
  IF Len(prompt) = 0 THEN Signals(<< >>, << >>, << >>)
  ELSE LET tokens == tokenize(prompt) IN
       Signals(SetOrder(Keep(tokens, { t \in Range(tokens) : MatchesScopeKey(t, scopeKeys) })),
               SetOrder(IntentsOf(tokens)),
               SetOrder(Keep(tokens, { t \in Range(tokens) : t \notin STOP_WORDS })))
extractPromptSignals(prompt, scopeKeys) ==
  IF Len(prompt) = 0 THEN Signals(<< >>, << >>, << >>)
  ELSE LET tokens == tokenize(prompt)
           scopeHints == SetOrder(Keep(tokens,
                           { t \in Range(tokens) : MatchesScopeKey(t, scopeKeys) }))
           intentHints == SetOrder(IntentsOf(tokens))
           consumedTokens == Range(scopeHints)
                               \cup { t \in Range(tokens) : ~IsNull(SynonymIntent(t)) }
           keywords == Keep(tokens, { t \in Range(tokens) :
                                        t \notin consumedTokens /\ t \notin STOP_WORDS })
       IN  Signals(scopeHints, intentHints, SetOrder(keywords))

\* inputs
WordPool ==
  { << "f", "i", "x" >>,
    << "f", "i", "x", "-", "d", "e", "f", "e", "c", "t" >>,
    << "e", "x", "p", "l", "o", "r", "e" >>,
    << "a", "u", "t", "h" >>,
    << "A", "U", "T", "H", "!" >>,
    << "l", "o", "g", "i", "n" >>,
    << "t", "h", "e" >>,
    << "f", "i", "x", ":", "a" >> }
Prompts == ListsUpTo(WordPool, MaxWords)
ScopeKeyLists ==
  { << >>,
    << << "A", "u", "t", "h" >>, << "a", "u", "t", "h", "/", "l", "o", "g", "i", "n" >> >>,
    << << "e", "x", "p", "l", "o", "r", "e" >> >>,
    << << "l", "o", "g", "i", "n", "/", "f", "i", "x" >>, << "f", "i", "x" >> >> }

\* ------------------------------------------ splitHeaderBodyTrailers (pure)
\* A commit message is the sequence of its lines (what split("\n") returns),
\* each line a sequence of characters.

Letters ==
  { "a", "b", "c", "d", "e", "f", "g", "h", "i", "j", "k", "l", "m", "n", "o", "p", "q",
    "r", "s", "t", "u", "v", "w", "x", "y", "z" } \cup Range(UpperCase)
\* String.prototype.trim
RECURSIVE trimEnd(_)
trimEnd(str) ==
  IF Len(str) > 0 /\ IsSpace(str[Len(str)]) THEN trimEnd(SubSeq(str, 1, Len(str) - 1)) ELSE str
trim(str) == trimEnd(SkipSpace(str))

\* the length of the longest prefix of [A-Za-z-] characters
RECURSIVE KeyChars(_)
KeyChars(str) ==
  IF Len(str) > 0 /\ (str[1] \in Letters \/ str[1] = "-") THEN 1 + KeyChars(Tail(str)) ELSE 0
NoMatch == [ok |-> FALSE, key |-> << >>, value |-> << >>]
\* TRAILER_RE.exec on a trimmed line: ^([A-Za-z][A-Za-z-]*)\s*:\s*(.+)$
TRAILER_RE(str) ==
  IF Len(str) = 0 \/ str[1] \notin Letters THEN NoMatch
  ELSE LET n == KeyChars(str)
           rest == SkipSpace(SubSeq(str, n + 1, Len(str)))
       IN  IF Len(rest) < 2 \/ rest[1] # ":" THEN NoMatch
           ELSE [ok |-> TRUE, key |-> SubSeq(str, 1, n), value |-> SkipSpace(Tail(rest))]

KNOWN_TRAILER_KEYS ==
  { << "i", "n", "t", "e", "n", "t" >>, << "s", "c", "o", "p", "e" >>, << "d", "e", "c", "i", "d", "e", "d", "-", "a", "g", "a", "i", "n", "s", "t" >>, << "s", "e", "s", "s", "i", "o", "n" >>, << "r", "e", "f", "s" >>, << "c", "o", "n", "t", "e", "x", "t" >>, << "b", "r", "e", "a", "k", "i", "n", "g" >>,
    << "s", "i", "g", "n", "e", "d", "-", "o", "f", "f", "-", "b", "y" >>, << "c", "o", "-", "a", "u", "t", "h", "o", "r", "e", "d", "-", "b", "y" >> }

\* a trailer by its shape alone
ShapedTrailer(trimmed) == TRAILER_RE(trimmed).ok
\* match && KNOWN_TRAILER_KEYS.has(match[1].toLowerCase())
RecognisedTrailer(trimmed) ==
  TRAILER_RE(trimmed).ok /\ toLowerCase(TRAILER_RE(trimmed).key) \in KNOWN_TRAILER_KEYS

\* the last line at or above a position that is not blank, 0 if none
RECURSIVE SkipBlankUp(_, _)
SkipBlankUp(lines, at) ==
  IF at >= 1 /\ trim(lines[at]) = << >> THEN SkipBlankUp(lines, at - 1) ELSE at
\* the backward scan from a line with the trailer start found so far
RECURSIVE ScanTrailers(_, _, _)
ScanTrailers(lines, at, trailerStart) ==
  IF at < 1 THEN trailerStart
  ELSE IF trim(lines[at]) = << >>
    THEN LET j == SkipBlankUp(lines, at - 1) IN
         IF j >= 1 /\ RecognisedTrailer(trim(lines[j]))
         THEN ScanTrailers(lines, at - 1, trailerStart)
         ELSE trailerStart
  ELSE IF RecognisedTrailer(trim(lines[at])) THEN ScanTrailers(lines, at - 1, at)
  ELSE Len(lines) + 1

\* join("\n").trim(): blank lines at both ends dropped, the first line trimmed
\* at its start and the last at its end
RECURSIVE DropBlankStart(_)
DropBlankStart(lines) ==
  IF Len(lines) > 0 /\ trim(lines[1]) = << >> THEN DropBlankStart(Tail(lines)) ELSE lines
RECURSIVE DropBlankEnd(_)
DropBlankEnd(lines) ==
  IF Len(lines) > 0 /\ trim(lines[Len(lines)]) = << >>
  THEN DropBlankEnd(SubSeq(lines, 1, Len(lines) - 1)) ELSE lines
JoinTrim(lines) ==
  LET ls == DropBlankEnd(DropBlankStart(lines)) IN
  [k \in 1..Len(ls) |->
     IF k = 1 /\ k = Len(ls) THEN trim(ls[k])
     ELSE IF k = 1 THEN SkipSpace(ls[k])
     ELSE IF k = Len(ls) THEN trimEnd(ls[k])
     ELSE ls[k]]
\* map(trim).filter(l => l !== "")
RECURSIVE TrimmedNonBlank(_)
TrimmedNonBlank(lines) ==
  IF Len(lines) = 0 THEN << >>
  ELSE IF trim(lines[1]) = << >> THEN TrimmedNonBlank(Tail(lines))
  ELSE << trim(lines[1]) >> \o TrimmedNonBlank(Tail(lines))

splitHeaderBodyTrailers(lines) ==
  LET trailerStart == ScanTrailers(lines, SkipBlankUp(lines, Len(lines)), Len(lines) + 1) IN
  [body |-> JoinTrim(SubSeq(lines, 1, trailerStart - 1)),
   trailerLines |-> TrimmedNonBlank(SubSeq(lines, trailerStart, Len(lines)))]

\* inputs
LinePool ==
  { << >>, << " " >>, << "I", "n", "t", "e", "n", "t", ":", " ", "f", "i", "x", "-", "d", "e", "f", "e", "c", "t" >>, << " ", "s", "c", "o", "p", "e", " ", ":", " ", "a", "/", "b", " " >>, << "R", "e", "f", "s", ":", " ", "1" >>, << "U", "R", "L", ":", " ", "x" >>, << " ", "U", "R", "L", ":", " ", "x" >>, << "t", "e", "x", "t" >>,
    << "I", "n", "t", "e", "n", "t", ":" >> }
\* what split("\n") can return: at least one line
RawBodies == ListsUpTo(LinePool, MaxLines) \ { << >> }

\* --------------------------------------------------------- validate (pure)
\* A diagnostic is its severity and its rule; the message text is left out.
Diag(severity, rule) == [severity |-> severity, rule |-> rule]
HeaderMaxLength == 72
HEADER_TYPES ==
  { << "f", "e", "a", "t" >>, << "f", "i", "x" >>, << "r", "e", "f", "a", "c", "t", "o", "r" >>, << "p", "e", "r", "f" >>, << "d", "o", "c", "s" >>, << "t", "e", "s", "t" >>, << "b", "u", "i", "l", "d" >>, << "c", "i" >>, << "c", "h", "o", "r", "e" >>,
    << "r", "e", "v", "e", "r", "t" >> }
\* the position of the first c in str, 0 if none
RECURSIVE FirstAt(_, _)
FirstAt(str, c) ==
  IF Len(str) = 0 THEN 0
  ELSE IF str[1] = c THEN 1
  ELSE LET n == FirstAt(Tail(str), c) IN IF n = 0 THEN 0 ELSE n + 1
EndsWith(str, suffix) ==
  Len(str) >= Len(suffix) /\ SubSeq(str, Len(str) - Len(suffix) + 1, Len(str)) = suffix
NoHeader == [ok |-> FALSE, type |-> << >>, subject |-> << >>]
\* what follows the type: (?:\(([^)]+)\))?!?:\s+(.+)$
HeaderTail(type, rest) ==
  LET close == FirstAt(rest, ")")
      scoped == Len(rest) > 0 /\ rest[1] = "("
      afterScope == IF scoped THEN SubSeq(rest, close + 1, Len(rest)) ELSE rest
      afterBang == IF Len(afterScope) > 0 /\ afterScope[1] = "!" THEN Tail(afterScope)
                   ELSE afterScope
  IN  IF scoped /\ close < 3 THEN NoHeader
      ELSE IF Len(afterBang) < 3 \/ afterBang[1] # ":" \/ ~IsSpace(afterBang[2]) THEN NoHeader
      ELSE LET text == SkipSpace(Tail(afterBang)) IN
           [ok |-> TRUE, type |-> type,
            subject |-> IF Len(text) = 0 THEN << " " >> ELSE text]
\* HEADER_RE.exec
HEADER_RE(header) ==
  IF \E t \in HEADER_TYPES : StartsWith(header, t)
  THEN LET type == CHOOSE t \in HEADER_TYPES : StartsWith(header, t) IN
       HeaderTail(type, SubSeq(header, Len(type) + 1, Len(header)))
  ELSE NoHeader

validateHeader(header) ==
  LET m == HEADER_RE(header)
      space == FirstAt(m.subject, " ")
      firstWord == toLowerCase(IF space = 0 THEN m.subject
                               ELSE SubSeq(m.subject, 1, space - 1))
  IN  (IF Len(header) > HeaderMaxLength THEN << Diag("error", "header-max-length") >>
       ELSE << >>)
      \o (IF ~m.ok THEN << Diag("error", "header-format") >>
          ELSE (IF EndsWith(m.subject, << "." >>)
                THEN << Diag("warning", "subject-no-period") >> ELSE << >>)
               \o (IF EndsWith(firstWord, << "e", "d" >>) \/ EndsWith(firstWord, << "i", "n", "g" >>)
                   THEN << Diag("warning", "subject-imperative") >> ELSE << >>))

\* the values of the trailers of one key, in the order of the lines
RECURSIVE TrailerValues(_, _)
TrailerValues(lines, key) ==
  IF Len(lines) = 0 THEN << >>
  ELSE LET m == TRAILER_RE(trim(lines[1])) IN
       (IF m.ok /\ toLowerCase(m.key) = key THEN << trim(m.value) >> ELSE << >>)
       \o TrailerValues(Tail(lines), key)
INTENT_TYPES ==
  << << "e", "n", "a", "b", "l", "e", "-", "c", "a", "p", "a", "b", "i", "l", "i", "t", "y" >>, << "f", "i", "x", "-", "d", "e", "f", "e", "c", "t" >>, << "i", "m", "p", "r", "o", "v", "e", "-", "q", "u", "a", "l", "i", "t", "y" >>, << "r", "e", "s", "t", "r", "u", "c", "t", "u", "r", "e" >>,
     << "c", "o", "n", "f", "i", "g", "u", "r", "e", "-", "i", "n", "f", "r", "a" >>, << "d", "o", "c", "u", "m", "e", "n", "t" >>, << "e", "x", "p", "l", "o", "r", "e" >>, << "r", "e", "s", "o", "l", "v", "e", "-", "b", "l", "o", "c", "k", "e", "r" >> >>
\* split(","): the pieces between the commas, empty ones included
RECURSIVE SplitCommas(_, _)
SplitCommas(str, piece) ==
  IF Len(str) = 0 THEN << piece >>
  ELSE IF str[1] = "," THEN << piece >> \o SplitCommas(Tail(str), << >>)
  ELSE SplitCommas(Tail(str), Append(piece, str[1]))
\* one warning for each scope entry that is not empty and holds no slash
RECURSIVE ScopeFormat(_)
ScopeFormat(scopes) ==
  IF Len(scopes) = 0 THEN << >>
  ELSE (IF Len(scopes[1]) > 0 /\ FirstAt(scopes[1], "/") = 0
        THEN << Diag("warning", "scope-format") >> ELSE << >>)
       \o ScopeFormat(Tail(scopes))
\* SESSION_RE.test: ^\d{4}-\d{2}-\d{2}\/.+$
SESSION_RE(str) ==
  /\ Len(str) >= 12
  /\ \A k \in { 1, 2, 3, 4, 6, 7, 9, 10 } : IsDigit(str[k])
  /\ str[5] = "-"
  /\ str[8] = "-"
  /\ str[11] = "/"
\* JSON.parse succeeds; of the JSON texts only the literals, the integers
\* and the empty containers are told apart from the texts that do not parse
JsonParses(str) ==
  LET t == trim(str) IN
  \/ t \in { << "{", "}" >>, << "[", "]" >>, << "n", "u", "l", "l" >>, << "t", "r", "u", "e" >>, << "f", "a", "l", "s", "e" >> }
  \/ /\ Len(t) > 0
     /\ \A k \in 1..Len(t) : IsDigit(t[k])
     /\ (t[1] = "0" => Len(t) = 1)

validateTrailers(lines) ==
  LET intent == TrailerValues(lines, << "i", "n", "t", "e", "n", "t" >>)
      scope == TrailerValues(lines, << "s", "c", "o", "p", "e" >>)
      session == TrailerValues(lines, << "s", "e", "s", "s", "i", "o", "n" >>)
      context == TrailerValues(lines, << "c", "o", "n", "t", "e", "x", "t" >>)
      scopes == IF Len(scope) = 0 THEN << >>
                ELSE LET ps == SplitCommas(scope[1], << >>) IN
                     [k \in 1..Len(ps) |-> trim(ps[k])]
  IN  (IF Len(intent) = 0 THEN << Diag("error", "intent-required") >>
       ELSE (IF intent[1] \notin Range(INTENT_TYPES) THEN << Diag("error", "intent-valid") >>
             ELSE << >>)
            \o (IF Len(intent) > 1 THEN << Diag("error", "intent-single") >> ELSE << >>))
      \o (IF Len(scope) = 0 THEN << Diag("error", "scope-required") >>
          ELSE (IF Len(scopes) > 3 THEN << Diag("warning", "scope-max-entries") >>
                ELSE << >>)
               \o ScopeFormat(scopes))
      \o (IF Len(session) > 0 /\ ~SESSION_RE(session[1])
          THEN << Diag("warning", "session-format") >> ELSE << >>)
      \o (IF Len(context) > 0 /\ ~JsonParses(context[1])
          THEN << Diag("error", "context-valid-json") >> ELSE << >>)

TRIVIAL_TYPES == { << "c", "h", "o", "r", "e" >>, << "c", "i" >>, << "b", "u", "i", "l", "d" >> }
\* the body is given by its lines: it trims to nothing when they are all blank
validateBody(bodyLines, header) ==
  IF (\A k \in 1..Len(bodyLines) : trim(bodyLines[k]) = << >>)
     /\ HEADER_RE(header).type \notin TRIVIAL_TYPES
  THEN << Diag("warning", "body-present") >>
  ELSE << >>

\* the backward scan of findTrailerBlock that forgets no trailer when it
\* meets a body line
RECURSIVE FindScanKeepingStart(_, _, _)
FindScanKeepingStart(lines, at, trailerStart) ==
  IF at < 2 THEN [trailerStart |-> trailerStart, foundBlankSeparator |-> FALSE]
  ELSE IF trim(lines[at]) = << >>
    THEN [trailerStart |-> trailerStart, foundBlankSeparator |-> TRUE]
  ELSE IF RecognisedTrailer(trim(lines[at])) THEN FindScanKeepingStart(lines, at - 1, at)
  ELSE [trailerStart |-> trailerStart, foundBlankSeparator |-> FALSE]
\* the backward scan of findTrailerBlock from a line down to the line below
\* the header, with the trailer start found so far
RECURSIVE FindScan(_, _, _)
FindScan(lines, at, trailerStart) ==
  IF at < 2 THEN [trailerStart |-> trailerStart, foundBlankSeparator |-> FALSE]
  ELSE IF trim(lines[at]) = << >>
    THEN [trailerStart |-> trailerStart, foundBlankSeparator |-> TRUE]
  ELSE IF RecognisedTrailer(trim(lines[at])) THEN FindScan(lines, at - 1, at)
  ELSE [trailerStart |-> Len(lines) + 1, foundBlankSeparator |-> FALSE]
findTrailerBlock(lines) ==
  LET found == FindScan(lines, Len(lines), Len(lines) + 1) IN
  [trailerStart |-> found.trailerStart,
   diagnostics |->
     IF found.trailerStart < Len(lines) + 1 /\ ~found.foundBlankSeparator
     THEN << Diag("error", "trailer-blank-line") >> ELSE << >>]

\* message.trim().split("\n"): at least one line, the empty one for a
\* message that trims to nothing
TrimSplit(message) ==
  IF JoinTrim(message) = << >> THEN << << >> >> ELSE JoinTrim(message)
validate(message) ==
  LET lines == TrimSplit(message)
      block == findTrailerBlock(lines)
  IN  validateHeader(lines[1])
      \o validateBody(SubSeq(lines, 2, block.trailerStart - 1), lines[1])
      \o block.diagnostics
      \o validateTrailers(SubSeq(lines, block.trailerStart, Len(lines)))

\* inputs: the lines of a message
MessageLinePool ==
  { << >>, << "f", "i", "x", ":", " ", "a" >>, << "f", "e", "a", "t", "(", "x", ")", ":", " ", "a", "d", "d", "e", "d", " ", "y", "." >>, << "I", "n", "t", "e", "n", "t", ":", " ", "f", "i", "x", "-", "d", "e", "f", "e", "c", "t" >>, << "i", "n", "t", "e", "n", "t", " ", ":", " ", "b", "o", "g", "u", "s" >>,
    << "S", "c", "o", "p", "e", ":", " ", "a", "/", "b" >>, << "S", "c", "o", "p", "e", ":", " ", "a" >>, << "N", "o", "t", "e", ":", " ", "x" >>, << "t", "e", "x", "t" >> }
Messages == ListsUpTo(MessageLinePool, MaxLines) \ { << >> }

\* ---------------------------------------------- buildReplSystemPrompt (pure)
\* A prompt is a sequence of pieces of text; a number is written out in its
\* digits.
ScopeSampleSize == 20
\* Array.prototype.join(", ") of texts
RECURSIVE join(_)
join(parts) ==
  IF Len(parts) = 0 THEN << >>
  ELSE IF Len(parts) = 1 THEN parts[1]
  ELSE parts[1] \o << ", " >> \o join(Tail(parts))
\* every scope key, the sample not cut
AllScopeKeys(scopeKeySample) == scopeKeySample
\* opts.scopeKeySample.slice(0, 20)
ScopeKeySample(scopeKeySample) ==
  SubSeq(scopeKeySample, 1, Min(ScopeSampleSize, Len(scopeKeySample)))
buildReplSystemPrompt(opts) ==
  LET sample == ScopeKeySample(opts.scopeKeySample) IN
  << "You are a git history analysis agent running inside a JavaScript REPL.",
     "ENVIRONMENT (pre-loaded variables): - index: TrailerIndex object with fields: ...",
     "- scopeKeys: string[] - all known scope keys (sample: " >>
  \o join([k \in 1..Len(sample) |-> << sample[k] >>])
  \o << ")", "- intentTypes: available intents: " >>
  \o join(opts.intentTypes)
  \o << "- commitCount: " >>
  \o NumberToString(opts.commitCount)
  \o << " total indexed commits",
        IF opts.hasWorkingMemory
        THEN "- workingMemory: object with entries from the current session"
        ELSE "- workingMemory: null (no working memory this session)",
        "AVAILABLE FUNCTIONS: - query(params) ... - callLlm(messages) ... - gitLog(args) ... - done(answer) ... - console.log(...)",
        "RULES: 1. Each turn: write a JavaScript code block. It will be executed. 2. When you have enough context, call done(answer) with a concise summary.",
        "3. Budget: " >>
  \o NumberToString(opts.budget.maxIterations)
  \o << " iterations max, " >>
  \o NumberToString(opts.budget.maxLlmCalls)
  \o << " total LLM calls (including sub-calls).",
        "4. If data is small, analyze directly. ... 7. Always call done() when ready. Never leave the REPL without an answer." >>
\* the system prompt runRepl builds for an environment and a REPL configuration
SystemPromptOf(env, replConfig) ==
  buildReplSystemPrompt(
    [scopeKeySample |-> env.scopeKeys,
     intentTypes |-> INTENT_TYPES,
     commitCount |-> env.index.commitCount,
     hasWorkingMemory |-> ~IsNull(env.workingMemory),
     budget |-> [maxIterations |-> replConfig.maxIterations,
                 maxLlmCalls |-> replConfig.maxLlmCalls]])

\* inputs: scope-key lists around the sample size, indexes that differ in
\* their commits, working memories that differ in their entries
FirstScopeKeys == [k \in 1..(ScopeSampleSize - 1) |-> "scope"]
ScopeKeyTails == ListsUpTo({ "auth", "api" }, MaxTail)
PromptIndexes ==
  { [commitCount |-> Len(hs), hashes |-> hs] : hs \in { << >>, << "aaa111" >>, << "bbb222" >> } }
PromptEnvs ==
  [scopeKeys : { FirstScopeKeys \o t : t \in ScopeKeyTails },
   index : PromptIndexes,
   workingMemory : { None, Some(<< "e1" >>), Some(<< "e2" >>) }]
PromptConfigs == [maxIterations : { 6, 7 }, maxLlmCalls : { 10 }]
PromptRuns == [env : PromptEnvs, replConfig : PromptConfigs]

\* ------------------------------------------- loadRlmConfig, saveRlmConfig
\* A JSON value is its type and its text; an object is a function from its
\* property names.  A file holds a text that JSON.parse rejects, or the
\* literals of an object's properties.
Bool(b) == [type |-> "boolean", val |-> IF b THEN "true" ELSE "false"]
Str(s) == [type |-> "string", val |-> s]
Num(n) == [type |-> "number", val |-> n]
DEFAULT_CONFIG ==
  [version |-> Num("1"),
   enabled |-> Bool(FALSE),
   endpoint |-> Str("http://localhost:11434"),
   model |-> Str("qwen2.5:7b"),
   timeoutMs |-> Num("5000"),
   maxTokens |-> Num("256")]
\* the literal JSON.stringify writes for a value
JsonLiteral(v) == IF v.type = "string" THEN << "quote", v.val, "quote" >> ELSE << v.val >>
\* the value JSON.parse reads from a literal
ParseLiteral(l) ==
  IF Len(l) = 3 THEN Str(l[2])
  ELSE IF l[1] \in { "true", "false" } THEN Bool(l[1] = "true")
  ELSE Num(l[1])
InvalidJson == [valid |-> FALSE, data |-> << >>]
\* JSON.stringify(config, null, 2)
JsonStringify(config) ==
  [valid |-> TRUE, data |-> [f \in DOMAIN config |-> JsonLiteral(config[f])]]
\* JSON.parse of a text that parses
JsonParse(content) == [f \in DOMAIN content.data |-> ParseLiteral(content.data[f])]

loadRlmConfig(fs) ==
  IF ~fs.isRepo \/ IsNull(fs.config) \/ ~fs.config[1].valid THEN DEFAULT_CONFIG
  ELSE LET data == JsonParse(fs.config[1]) IN
       IF "version" \notin DOMAIN data \/ data["version"] # Num("1") THEN DEFAULT_CONFIG
       ELSE [f \in DOMAIN DEFAULT_CONFIG |->
               IF f = "version" THEN Num("1")
               ELSE IF f \in DOMAIN data /\ data[f].type = DEFAULT_CONFIG[f].type THEN data[f]
               ELSE DEFAULT_CONFIG[f]]
\* the files after saveRlmConfig(config): nothing is written outside a repository
saveRlmConfig(fs, config) ==
  IF fs.isRepo THEN [fs EXCEPT !.config = Some(JsonStringify(config))] ELSE fs

\* inputs: configurations with and without the REPL properties, and file
\* contents written by hand
BaseConfigs ==
  { [DEFAULT_CONFIG EXCEPT !.enabled = Bool(e), !.endpoint = Str(u), !.timeoutMs = Num(t),
                           !.maxTokens = Num(m)] :
      e \in BOOLEAN, u \in { "http://localhost:11434", "http://localhost:8080" },
      t \in { "5000", "3000" }, m \in { "256", "512" } }
ReplProperties ==
  { [replEnabled |-> Bool(e),
     replMaxIterations |-> Num(n),
     replMaxLlmCalls |-> Num("10"),
     replTimeoutBudgetMs |-> Num("15000"),
     replMaxOutputTokens |-> Num("512")] : e \in BOOLEAN, n \in { "6", "3" } }
Configs == BaseConfigs \cup { c @@ r : c \in BaseConfigs, r \in ReplProperties }
HandWritten ==
  { InvalidJson,
    JsonStringify([version |-> Num("2"), enabled |-> Bool(TRUE)]),
    JsonStringify([enabled |-> Bool(TRUE)]),
    JsonStringify([version |-> Num("1"), enabled |-> Bool(TRUE), model |-> Str("test")]),
    JsonStringify([version |-> Num("1"), enabled |-> Str("yes"), timeoutMs |-> Str("5000"),
                   replMaxIterations |-> Str("3")]) }

SaveConfig ==
  \E c \in Configs :
    /\ files' = saveRlmConfig(files, c)
    /\ fnArgs' = IF files.isRepo THEN Some(c) ELSE None
    /\ fnOut' = None
    /\ UNCHANGED << runVars, sanVars, queryVars, matchVars, wmVars, ixVars >>
LoadConfig ==
  /\ fnOut' = Some(loadRlmConfig(files))
  /\ UNCHANGED << runVars, fsVars, sanVars, queryVars, matchVars, wmVars, ixVars, fnArgs >>
\* the file is written by hand
EditConfig ==
  \E content \in HandWritten :
    /\ files.isRepo
    /\ files' = [files EXCEPT !.config = Some(content)]
    /\ fnArgs' = None
    /\ fnOut' = None
    /\ UNCHANGED << runVars, sanVars, queryVars, matchVars, wmVars, ixVars >>
RemoveConfig ==
  /\ ~IsNull(files.config)
  /\ files' = [files EXCEPT !.config = None]
  /\ fnArgs' = None
  /\ fnOut' = None
  /\ UNCHANGED << runVars, sanVars, queryVars, matchVars, wmVars, ixVars >>

\* ------------------------------------------------- install-rlm (installer)
\* The target holds its scripts, .claude/settings.json, CLAUDE.md and
\* deno.json.  A JSON file is absent, or holds a text that does not parse, or
\* an object.  A hook command is a sequence of pieces of text in which a
\* script file name is a piece of its own; the text of CLAUDE.md is a sequence
\* of pieces, each a run of text, an opening tag, a closing tag or a line
\* break.
SCRIPT_MANIFEST ==
  { "scripts/types.ts", "scripts/build-trailer-index.ts", "scripts/git-memory-context.ts",
    "scripts/git-memory-bridge.ts", "scripts/git-memory-consolidate.ts",
    "scripts/working-memory-write.ts", "scripts/rlm-configure.ts", "scripts/lib/parser.ts",
    "scripts/lib/matching.ts", "scripts/lib/prompt-analyzer.ts",
    "scripts/lib/working-memory.ts", "scripts/lib/command-parser.ts",
    "scripts/lib/consolidation.ts", "scripts/lib/rlm-config.ts", "scripts/lib/local-llm.ts",
    "scripts/lib/rlm-subcalls.ts" }
HookCommand(command, async) == [type |-> "command", command |-> command, async |-> async]
HookEntry(matcher, hooks) == [matcher |-> matcher, hooks |-> hooks]
RLM_HOOKS ==
  [UserPromptSubmit |->
     << HookEntry("", << HookCommand(<< "deno run --allow-run --allow-read --allow-env --allow-net scripts/",
                                        "git-memory-context.ts" >>, FALSE) >>) >>,
   PostToolUse |->
     << HookEntry("Bash", << HookCommand(<< "deno run --allow-run --allow-read --allow-env --allow-net scripts/",
                                            "git-memory-bridge.ts" >>, TRUE) >>) >>,
   Stop |->
     << HookEntry("", << HookCommand(<< "deno run --allow-run --allow-read --allow-write --allow-env scripts/",
                                        "git-memory-consolidate.ts" >>, FALSE) >>) >>]
RLM_HOOK_MARKERS == { "git-memory-context.ts", "git-memory-bridge.ts", "git-memory-consolidate.ts" }
CLAUDE_MD_SECTION_TAGS ==
  << "git-memory", "working-memory", "git-memory-bridge", "memory-consolidation",
     "rlm-local-llm" >>
RLM_TASK_KEYS == { "context", "memory:write", "memory:clear", "memory:consolidate", "rlm:configure" }
RLM_TASKS ==
  [key \in RLM_TASK_KEYS |->
     CASE key = "context" ->
            "deno run --allow-run --allow-read --allow-env --allow-net scripts/git-memory-context.ts"
       [] key = "memory:write" ->
            "deno run --allow-run --allow-read --allow-write --allow-env scripts/working-memory-write.ts"
       [] key = "memory:clear" ->
            "deno run --allow-run --allow-read --allow-write scripts/working-memory-write.ts --clear"
       [] key = "memory:consolidate" ->
            "deno run --allow-run --allow-read --allow-write --allow-env scripts/git-memory-consolidate.ts"
       [] key = "rlm:configure" ->
            "deno run --allow-run --allow-read --allow-write --allow-net scripts/rlm-configure.ts"]

StepOk(value) == [ok |-> TRUE, value |-> value]
StepFail(value) == [ok |-> FALSE, value |-> value]
\* a file that exists and whose text JSON.parse rejects
Unparsable(file) == ~IsNull(file) /\ ~file[1].valid
JsonFile(json) == Some([valid |-> TRUE, json |-> json])

\* cmd.includes(marker) for some command of the entry and some marker
isRlmHook(entry) ==
  \E k \in 1..Len(entry.hooks) : \E marker \in RLM_HOOK_MARKERS :
    \E n \in 1..Len(entry.hooks[k].command) : entry.hooks[k].command[n] = marker
\* the entries as they are, RLM hooks included
KeepRlmHooks(entries) == entries
\* existing.filter((entry) => !isRlmHook(entry))
RECURSIVE WithoutRlmHooks(_)
WithoutRlmHooks(entries) ==
  IF Len(entries) = 0 THEN << >>
  ELSE (IF isRlmHook(entries[1]) THEN << >> ELSE << entries[1] >>)
       \o WithoutRlmHooks(Tail(entries))
\* settings.hooks ?? {}
HooksOf(settings) == IF IsNull(settings.hooks) THEN << >> ELSE settings.hooks[1]
EmptySettings == [hooks |-> None, rest |-> "none"]
\* the settings file after mergeHooks
mergeHooks(file) ==
  IF Unparsable(file) THEN StepFail(file)
  ELSE LET settings == IF IsNull(file) THEN EmptySettings ELSE file[1].json
           hooks == HooksOf(settings)
           merged == [eventType \in DOMAIN hooks \cup DOMAIN RLM_HOOKS |->
                        IF eventType \in DOMAIN RLM_HOOKS
                        THEN WithoutRlmHooks(IF eventType \in DOMAIN hooks THEN hooks[eventType]
                                             ELSE << >>)
                             \o RLM_HOOKS[eventType]
                        ELSE hooks[eventType]]
       IN  StepOk(JsonFile([settings EXCEPT !.hooks = Some(merged)]))
\* the settings file after uninstallHooks
uninstallHooks(file) ==
  IF IsNull(file) THEN StepOk(file)
  ELSE IF Unparsable(file) THEN StepFail(file)
  ELSE LET settings == file[1].json
           hooks == HooksOf(settings)
           kept == { eventType \in DOMAIN hooks : Len(WithoutRlmHooks(hooks[eventType])) > 0 }
           modified == \E eventType \in DOMAIN hooks :
                         WithoutRlmHooks(hooks[eventType]) # hooks[eventType]
                         \/ Len(hooks[eventType]) = 0
           filtered == [eventType \in kept |-> WithoutRlmHooks(hooks[eventType])]
       IN  IF ~modified THEN StepOk(file)
           ELSE StepOk(JsonFile([settings EXCEPT
                  !.hooks = IF kept = { } THEN None ELSE Some(filtered)]))

Text(text) == [kind |-> "text", text |-> text]
Break == [kind |-> "break", text |-> ""]
OpenTag(tag) == [kind |-> "open", text |-> tag]
CloseTag(tag) == [kind |-> "close", text |-> tag]
\* the sections of the CLAUDE.md the installer ships
SourceClaudeMd ==
  Flatten([k \in 1..Len(CLAUDE_MD_SECTION_TAGS) |->
             << OpenTag(CLAUDE_MD_SECTION_TAGS[k]), Text("instructions"), Break,
                CloseTag(CLAUDE_MD_SECTION_TAGS[k]), Break, Break >>])
\* content.slice(start, end) for positions counted from 1, end excluded
SliceText(content, start, end) ==
  IF end <= start THEN << >> ELSE SubSeq(content, start, Min(end - 1, Len(content)))
\* the sections of a text, in the order of the tags: the tags found with
\* their text
RECURSIVE ExtractFrom(_, _)
ExtractFrom(content, tags) ==
  IF Len(tags) = 0 THEN << >>
  ELSE LET start == FirstAt(content, OpenTag(tags[1]))
           end == FirstAt(content, CloseTag(tags[1]))
       IN  (IF start # 0 /\ end # 0
            THEN << [tag |-> tags[1], section |-> SliceText(content, start, end + 1)] >>
            ELSE << >>)
           \o ExtractFrom(content, Tail(tags))
extractSections(content) == ExtractFrom(content, CLAUDE_MD_SECTION_TAGS)
EndsWithBreaks(content, n) ==
  Len(content) >= n /\ \A k \in (Len(content) - n + 1)..Len(content) : content[k] = Break
\* the text with the sections replaced or appended, one after the other
RECURSIVE UpdateSections(_, _)
UpdateSections(content, sections) ==
  IF Len(sections) = 0 THEN content
  ELSE LET start == FirstAt(content, OpenTag(sections[1].tag))
           end == FirstAt(content, CloseTag(sections[1].tag))
           separator == IF Len(content) > 0 /\ ~EndsWithBreaks(content, 2)
                        THEN (IF EndsWithBreaks(content, 1) THEN << Break >>
                              ELSE << Break, Break >>)
                        ELSE << >>
       IN  UpdateSections(
             IF start # 0 /\ end # 0
             THEN SliceText(content, 1, start) \o sections[1].section
                  \o SliceText(content, end + 1, Len(content) + 1)
             ELSE content \o separator \o sections[1].section \o << Break >>,
             Tail(sections))
\* the CLAUDE.md file after updateClaudeMd
updateClaudeMd(file) ==
  LET sourceSections == extractSections(SourceClaudeMd) IN
  IF Len(sourceSections) = 0 THEN StepFail(file)
  ELSE StepOk(Some(UpdateSections(IF IsNull(file) THEN << >> ELSE file[1], sourceSections)))
\* the text with the tagged sections removed, and whether one was removed
RECURSIVE RemoveSections(_, _, _)
RemoveSections(content, tags, modified) ==
  IF Len(tags) = 0 THEN [content |-> content, modified |-> modified]
  ELSE LET start == FirstAt(content, OpenTag(tags[1]))
           end == FirstAt(content, CloseTag(tags[1]))
           trailing == SliceText(content, end + 1, end + 3)
           removeEnd == IF trailing = << Break, Break >> THEN end + 3
                        ELSE IF Len(trailing) > 0 /\ trailing[1] = Break THEN end + 2
                        ELSE end + 1
       IN  IF start # 0 /\ end # 0
           THEN RemoveSections(SliceText(content, 1, start)
                               \o SliceText(content, removeEnd, Len(content) + 1),
                               Tail(tags), TRUE)
           ELSE RemoveSections(content, Tail(tags), modified)
\* String.prototype.trim of a text whose white space is its line breaks
RECURSIVE TrimBreaks(_)
TrimBreaks(content) ==
  IF Len(content) > 0 /\ content[1] = Break THEN TrimBreaks(Tail(content))
  ELSE IF Len(content) > 0 /\ content[Len(content)] = Break
    THEN TrimBreaks(SubSeq(content, 1, Len(content) - 1))
  ELSE content
\* the CLAUDE.md file after uninstallClaudeMd
uninstallClaudeMd(file) ==
  IF IsNull(file) THEN StepOk(file)
  ELSE LET removed == RemoveSections(file[1], CLAUDE_MD_SECTION_TAGS, FALSE)
           trimmed == TrimBreaks(removed.content)
       IN  IF ~removed.modified THEN StepOk(file)
           ELSE IF Len(trimmed) = 0 THEN StepOk(None)
           ELSE StepOk(Some(trimmed \o << Break >>))

EmptyDenoConfig == [tasks |-> None, rest |-> "none"]
\* denoConfig.tasks ?? {}
TasksOf(denoConfig) == IF IsNull(denoConfig.tasks) THEN << >> ELSE denoConfig.tasks[1]
\* the deno.json file after mergeDenoJson
mergeDenoJson(file) ==
  IF Unparsable(file) THEN StepFail(file)
  ELSE LET denoConfig == IF IsNull(file) THEN EmptyDenoConfig ELSE file[1].json
           tasks == TasksOf(denoConfig)
           merged == [key \in DOMAIN tasks \cup RLM_TASK_KEYS |->
                        IF key \in RLM_TASK_KEYS THEN RLM_TASKS[key] ELSE tasks[key]]
       IN  StepOk(JsonFile([denoConfig EXCEPT !.tasks = Some(merged)]))
\* the deno.json file after uninstallDenoJson
uninstallDenoJson(file) ==
  IF IsNull(file) THEN StepOk(file)
  ELSE IF Unparsable(file) THEN StepFail(file)
  ELSE LET denoConfig == file[1].json
           tasks == TasksOf(denoConfig)
       IN  IF DOMAIN tasks \cap RLM_TASK_KEYS = { } THEN StepOk(file)
           ELSE StepOk(JsonFile([denoConfig EXCEPT
                  !.tasks = Some([key \in DOMAIN tasks \ RLM_TASK_KEYS |-> tasks[key]])]))

\* the install flow on a target: the phases in their order, the first
\* failure ending the run with what the earlier phases have written
installFlow(target, skipHooks) ==
  LET copied == [target EXCEPT !.scripts = @ \cup SCRIPT_MANIFEST]
      hookStep == IF skipHooks THEN StepOk(target.settings) ELSE mergeHooks(target.settings)
      hooked == [copied EXCEPT !.settings = hookStep.value]
      claudeStep == updateClaudeMd(target.claudeMd)
      written == [hooked EXCEPT !.claudeMd = claudeStep.value]
      denoStep == mergeDenoJson(target.deno)
  IN  IF ~hookStep.ok THEN StepFail(copied)
      ELSE IF ~claudeStep.ok THEN StepFail(hooked)
      ELSE IF ~denoStep.ok THEN StepFail(written)
      ELSE StepOk([written EXCEPT !.deno = denoStep.value])
\* the uninstall flow on a target
uninstallFlow(target, skipHooks) ==
  LET removed == [target EXCEPT !.scripts = @ \ SCRIPT_MANIFEST]
      hookStep == IF skipHooks THEN StepOk(target.settings) ELSE uninstallHooks(target.settings)
      unhooked == [removed EXCEPT !.settings = hookStep.value]
      claudeStep == uninstallClaudeMd(target.claudeMd)
      cleaned == [unhooked EXCEPT !.claudeMd = claudeStep.value]
      denoStep == uninstallDenoJson(target.deno)
  IN  IF ~hookStep.ok THEN StepFail(removed)
      ELSE IF ~claudeStep.ok THEN StepFail(unhooked)
      ELSE IF ~denoStep.ok THEN StepFail(cleaned)
      ELSE StepOk([cleaned EXCEPT !.deno = denoStep.value])
\* install(args): nothing is written when a prerequisite fails or on a dry run
install(target, flags) ==
  IF ~flags.prerequisites THEN StepFail(target)
  ELSE LET flow == IF flags.uninstall THEN uninstallFlow(target, flags.skipHooks)
                   ELSE installFlow(target, flags.skipHooks)
       IN  IF flags.dryRun THEN [ok |-> flow.ok, value |-> target] ELSE flow

\* --------------------------------------------------- extractCodeBlock (pure)
\* An LLM response is a sequence of lines.  A fence (three backticks) is
\* written <fence>; "<fence>py" stands for a line that begins with a fence
\* and goes on with other text.
FenceJs == "<fence>js"
FenceJavascript == "<fence>javascript"
FenceBare == "<fence>"
FenceOther == "<fence>py"
\* openPattern: a line that is a fence, optionally followed by js or
\* javascript, and white space
IsOpenFence(line) == line \in { FenceBare, FenceJs, FenceJavascript }
\* rest.indexOf(newline + fence): a line that begins with a fence
BeginsWithFence(line) == line \in { FenceBare, FenceJs, FenceJavascript, FenceOther }
IsBlankLine(line) == line = ""
RECURSIVE TrimLeft(_)
TrimLeft(ls) == IF Len(ls) > 0 /\ IsBlankLine(ls[1]) THEN TrimLeft(Tail(ls)) ELSE ls
RECURSIVE TrimRight(_)
TrimRight(ls) ==
  IF Len(ls) > 0 /\ IsBlankLine(ls[Len(ls)])
  THEN TrimRight(SubSeq(ls, 1, Len(ls) - 1)) ELSE ls
Trim(ls) == TrimRight(TrimLeft(ls))
\* openPattern.exec(response): the first line that opens a block, 0 if none
FirstOpenFence(ls) ==
  IF \E k \in 1..Len(ls) : IsOpenFence(ls[k])
  THEN CHOOSE k \in 1..Len(ls) :
         IsOpenFence(ls[k]) /\ \A j \in 1..(k - 1) : ~IsOpenFence(ls[j])
  ELSE 0
\* rest.indexOf(newline + fence): the first line that begins with a fence, 0 if none
FirstFenceLine(ls) ==
  IF \E k \in 1..Len(ls) : BeginsWithFence(ls[k])
  THEN CHOOSE k \in 1..Len(ls) :
         BeginsWithFence(ls[k]) /\ \A j \in 1..(k - 1) : ~BeginsWithFence(ls[j])
  ELSE 0
\* null (None) when no code block is found, else Some(code)
extractCodeBlock(response) ==
  LET open == FirstOpenFence(response) IN
  IF open = 0 THEN None
  ELSE LET rest == SubSeq(response, open + 1, Len(response))
           closeIdx == FirstFenceLine(rest)
           codeLines == IF closeIdx > 0 THEN SubSeq(rest, 1, closeIdx - 1) ELSE rest
           trimmed == Trim(codeLines)
       IN IF Len(trimmed) > 0 THEN Some(trimmed) ELSE None

\* the responses the injected LLM may give to a root call
Responses ==
  { << "The auth scope has 2 commits." >>,
    << "Let me query.", FenceJs, "code", FenceBare >>,
    << FenceJs, "", FenceBare >> }

\* ------------------------------------------------------------ runRepl: data
NoResult == [kind |-> "none", answer |-> << >>, iterations |-> 0, llmCalls |-> 0,
             error |-> << >>]
TimedOutMessage == << "Sandbox execution timed out" >>
BudgetMessage == << "LLM call budget exhausted" >>
NoOutputProduced == << "No output produced" >>

SystemTurn == [role |-> "system", content |-> << "SYSTEM PROMPT" >>]
TaskTurn == [role |-> "user", content |-> << "Task: ", "Write JavaScript code" >>]
AssistantTurn(llmResponse) == [role |-> "assistant", content |-> llmResponse]
TimeoutTurn ==
  [role |-> "user",
   content |-> << "Execution error: " >> \o TimedOutMessage
               \o << "Try a simpler approach or call done() with your best answer." >>]
ErrorTurn(out) ==
  [role |-> "user",
   content |-> << "Execution error: " >> \o out.error[1]
               \o (IF Len(out.stdout) > 0 THEN << "Partial output:" >> \o out.stdout
                   ELSE << >>)
               \o << "Fix the error or call done() with your best answer." >>]
OutputTurn(out) ==
  [role |-> "user",
   content |-> << "Output:" >>
               \o (IF Len(out.stdout) > 0 THEN out.stdout ELSE << "(no output)" >>)
               \o << "Continue analysis or call done(answer) with your summary." >>]
ExhaustedTurn ==
  [role |-> "user",
   content |-> << "Iteration budget exhausted. Provide your best answer as plain text (no code block)." >>]

TimeoutTrace(it, c, sub) ==
  [iteration |-> it, codeGenerated |-> c,
   executionResult |-> << "ERROR: " >> \o TimedOutMessage, subCallCount |-> sub]
OutputTrace(it, c, out, sub) ==
  [iteration |-> it, codeGenerated |-> c,
   executionResult |-> IF Truthy(out.error)
                       THEN << "ERROR: " >> \o out.error[1] \o out.stdout
                       ELSE out.stdout,
   subCallCount |-> sub]

\* a loop that never consults the wall clock
budgetNeverExhausted == FALSE
\* budgetExhausted(): the wall clock has passed timeoutBudgetMs
budgetExhausted == expired
\* llmBudgetLeft()
llmBudgetLeft(cnt) == cnt < maxLlmCalls
\* trackedLlmCall with its budget guard left out
trackedLlmCallUnguarded(cnt) == TRUE
\* the guard of trackedLlmCall
trackedLlmCallAdmits(cnt) == llmBudgetLeft(cnt)

\* the results runRepl returns
\* a failed root call turned into an ok result without an answer
FailResultSwallowed(err, cnt) ==
  [kind |-> "ok", answer |-> NoOutputProduced, iterations |-> 0, llmCalls |-> cnt,
   error |-> << >>]
FailResult(err, cnt) ==
  [kind |-> "fail", answer |-> << >>, iterations |-> 0, llmCalls |-> cnt, error |-> err]
ThrownResult(cnt) ==
  [kind |-> "threw", answer |-> << >>, iterations |-> 0, llmCalls |-> cnt,
   error |-> << "exception" >>]
\* the text answer reported as a first-iteration answer whatever the iteration
TextResultFirst(it, cnt, llmResponse) ==
  [kind |-> "ok", answer |-> llmResponse, iterations |-> 1, llmCalls |-> cnt,
   error |-> << >>]
TextResult(it, cnt, llmResponse) ==
  [kind |-> "ok", answer |-> llmResponse, iterations |-> it + 1, llmCalls |-> cnt,
   error |-> << >>]
DoneResult(it, cnt, out) ==
  [kind |-> "ok", answer |-> out.doneAnswer[1], iterations |-> it + 1,
   llmCalls |-> cnt, error |-> << >>]
ForcedResult(cnt, text) ==
  [kind |-> "ok", answer |-> text, iterations |-> maxIterations + 1, llmCalls |-> cnt,
   error |-> << >>]
\* lastOutput: the last trace entry's execution result, or the placeholder
lastOutput(tr) == IF Len(tr) > 0 THEN tr[Len(tr)].executionResult ELSE NoOutputProduced
\* the degraded result with the placeholder whatever the trace holds
DegradedResultPlaceholder(cnt, tr) ==
  [kind |-> "ok", answer |-> NoOutputProduced, iterations |-> Len(tr), llmCalls |-> cnt,
   error |-> << >>]
\* the degraded result counting one iteration more than the trace holds
DegradedResultOverCount(cnt, tr) ==
  [kind |-> "ok", answer |-> lastOutput(tr), iterations |-> Len(tr) + 1, llmCalls |-> cnt,
   error |-> << >>]
DegradedResult(cnt, tr) ==
  [kind |-> "ok", answer |-> lastOutput(tr), iterations |-> Len(tr), llmCalls |-> cnt,
   error |-> << >>]
\* output.done && output.doneAnswer
DoneSignalled(out) == out.done /\ Truthy(out.doneAnswer)

\* ------------------------------------------------------- runRepl: the loop
\* a return that bypasses the finally block
ReturnWithoutTerminate(res) ==
  /\ pc' = "done"
  /\ result' = res
  /\ workerAlive' = workerAlive
  /\ terminateCount' = terminateCount
\* return, through the finally block: sandbox.terminate()
Return(res) ==
  /\ pc' = "done"
  /\ result' = res
  /\ workerAlive' = FALSE
  /\ terminateCount' = terminateCount + 1

\* The for loop from its test at iteration it, up to the next await: the root
\* LLM call, the forced final call, or the degraded return.
LoopFrom(it, cnt, conv, tr) ==
  /\ i' = it
  /\ trace' = tr
  /\ IF it < maxIterations /\ ~budgetExhausted /\ llmBudgetLeft(cnt)
     THEN /\ pc' = "awaitRoot"
          /\ llmCallCount' = cnt + 1
          /\ llmEffects' = llmEffects + 1
          /\ conversation' = conv
          /\ UNCHANGED << result, workerAlive, terminateCount, exitView >>
     ELSE /\ exitView' = Some([llmCallCount |-> cnt, expired |-> expired])
          /\ IF llmBudgetLeft(cnt) /\ ~budgetExhausted
             THEN /\ pc' = "awaitFinal"
                  /\ conversation' = Append(conv, ExhaustedTurn)
                  /\ llmCallCount' = cnt + 1
                  /\ llmEffects' = llmEffects + 1
                  /\ UNCHANGED << result, workerAlive, terminateCount >>
             ELSE /\ conversation' = conv
                  /\ llmCallCount' = cnt
                  /\ llmEffects' = llmEffects
                  /\ Return(DegradedResult(cnt, tr))

\* sandbox.execute(c) up to its await: wait for the ready message, or set the
\* timer, add the message handler and post the execute message
Execute(c, q, ready) ==
  IF ready
  THEN /\ pc' = "awaitExec"
       /\ toChild' = Append(q, [kind |-> "execute", id |-> execCount + 1, ok |-> TRUE,
                                body |-> c])
       /\ execCount' = execCount + 1
  ELSE /\ pc' = "awaitInit"
       /\ toChild' = q
       /\ execCount' = execCount

\* runRepl up to its first await; createSandbox posts the init message
ReplStart ==
  /\ Delivered
  /\ pc = "start"
  /\ toChild' = Append(toChild, [kind |-> "init", id |-> 0, ok |-> TRUE, body |-> << >>])
  /\ LoopFrom(0, 0, << SystemTurn, TaskTurn >>, << >>)
  /\ UNCHANGED << cfgVars, responses, code, subCallsBefore, output, expired, initialized,
                  staleHandlers, inflight, toHost, childVars, gitCalls, execCount,
                  lastRoot, lastFinal, pureVars >>

\* performance.now() - startTime passes timeoutBudgetMs
BudgetExpires ==
  /\ Delivered
  /\ pc # "done"
  /\ ~expired
  /\ expired' = TRUE
  /\ UNCHANGED << cfgVars, replVars, hostVars, toChild, responses, toHost, childVars, obsVars,
                  pureVars >>

\* the root call returns a failure
RootLlmFails ==
  /\ Delivered
  /\ pc = "awaitRoot"
  /\ lastRoot' = Some([kind |-> "fail", value |-> << "connection refused" >>])
  /\ Return(FailResult(<< "connection refused" >>, llmCallCount))
  /\ UNCHANGED << cfgVars, i, llmCallCount, conversation, trace, code, subCallsBefore,
                  output, expired, initialized, staleHandlers, inflight, toChild, responses,
                  toHost, childVars, llmEffects, gitCalls, execCount, lastFinal,
                  exitView, pureVars >>

\* the injected LLM effect rejects: the exception leaves runRepl
RootLlmThrows ==
  /\ Delivered
  /\ pc = "awaitRoot"
  /\ lastRoot' = Some([kind |-> "throw", value |-> << "exception" >>])
  /\ Return(ThrownResult(llmCallCount))
  /\ UNCHANGED << cfgVars, i, llmCallCount, conversation, trace, code, subCallsBefore,
                  output, expired, initialized, staleHandlers, inflight, toChild, responses,
                  toHost, childVars, llmEffects, gitCalls, execCount, lastFinal,
                  exitView, pureVars >>

\* the root call returns a response: a text answer, or code to execute
RootLlmAnswers ==
  /\ Delivered
  /\ pc = "awaitRoot"
  /\ \E llmResponse \in Responses :
       LET c == extractCodeBlock(llmResponse) IN
       /\ lastRoot' = Some([kind |-> "ok", value |-> llmResponse])
       /\ IF IsNull(c)
          THEN /\ Return(TextResult(i, llmCallCount, llmResponse))
               /\ UNCHANGED << conversation, code, subCallsBefore, toChild, execCount >>
          ELSE /\ conversation' = Append(conversation, AssistantTurn(llmResponse))
               /\ code' = c[1]
               /\ subCallsBefore' = llmCallCount
               /\ Execute(c[1], toChild, initialized)
               /\ UNCHANGED << result, workerAlive, terminateCount >>
  /\ UNCHANGED << cfgVars, i, llmCallCount, trace, output, expired, initialized,
                  staleHandlers, inflight, toHost, responses, childVars, llmEffects, gitCalls,
                  lastFinal, exitView, pureVars >>

\* an execute whose timer never fires
ExecTimeoutNeverFires ==
  /\ pc = "awaitExec"
  /\ FALSE
  /\ UNCHANGED vars
\* the timeout of execute propagated as the failure of runRepl
ExecTimeoutFails ==
  /\ Delivered
  /\ pc = "awaitExec"
  /\ staleHandlers' = staleHandlers + 1
  /\ Return(FailResult(TimedOutMessage, llmCallCount))
  /\ UNCHANGED << cfgVars, i, llmCallCount, conversation, trace, code, subCallsBefore,
                  output, expired, initialized, inflight, toChild, responses, toHost,
                  childVars, obsVars, pureVars >>
\* the timeout of execute wiping the child's global scope
ExecTimeoutResets ==
  /\ Delivered
  /\ pc = "awaitExec"
  /\ staleHandlers' = staleHandlers + 1
  /\ globals' = 0
  /\ LoopFrom(i + 1, llmCallCount, Append(conversation, TimeoutTurn),
              Append(trace, TimeoutTrace(i, code, llmCallCount - subCallsBefore)))
  /\ UNCHANGED << cfgVars, code, subCallsBefore, output, expired, initialized,
                  inflight, toChild, responses, toHost, childReady, nextRequestId,
                  pendingRequests, stdoutBuffer, doneSignal, frags, gitCalls,
                  execCount, lastRoot, lastFinal, pureVars >>
\* the timeout of execute leaving no turn in the conversation
ExecTimeoutWithoutTurn ==
  /\ Delivered
  /\ pc = "awaitExec"
  /\ staleHandlers' = staleHandlers + 1
  /\ LoopFrom(i + 1, llmCallCount, conversation,
              Append(trace, TimeoutTrace(i, code, llmCallCount - subCallsBefore)))
  /\ UNCHANGED << cfgVars, code, subCallsBefore, output, expired, initialized,
                  inflight, toChild, responses, toHost, childVars, gitCalls, execCount,
                  lastRoot, lastFinal, pureVars >>
\* the timer of execute fires first: the call fails, its message handler
\* stays registered, and the loop continues with the timeout as feedback
ExecTimeout ==
  /\ Delivered
  /\ pc = "awaitExec"
  /\ staleHandlers' = staleHandlers + 1
  /\ LoopFrom(i + 1, llmCallCount, Append(conversation, TimeoutTurn),
              Append(trace, TimeoutTrace(i, code, llmCallCount - subCallsBefore)))
  /\ UNCHANGED << cfgVars, code, subCallsBefore, output, expired, initialized,
                  inflight, toChild, responses, toHost, childVars, gitCalls, execCount,
                  lastRoot, lastFinal, pureVars >>

\* the forced final call returns text
FinalLlmAnswers ==
  /\ Delivered
  /\ pc = "awaitFinal"
  /\ \E text \in Responses :
       /\ lastFinal' = Some([kind |-> "ok", value |-> text])
       /\ Return(ForcedResult(llmCallCount, text))
  /\ UNCHANGED << cfgVars, i, llmCallCount, conversation, trace, code, subCallsBefore,
                  output, expired, initialized, staleHandlers, inflight, toChild, responses,
                  toHost, childVars, llmEffects, gitCalls, execCount, lastRoot,
                  exitView, pureVars >>

\* the forced final call returns a failure: fall through to what we have
FinalLlmFails ==
  /\ Delivered
  /\ pc = "awaitFinal"
  /\ lastFinal' = Some([kind |-> "fail", value |-> << "connection refused" >>])
  /\ Return(DegradedResult(llmCallCount, trace))
  /\ UNCHANGED << cfgVars, i, llmCallCount, conversation, trace, code, subCallsBefore,
                  output, expired, initialized, staleHandlers, inflight, toChild, responses,
                  toHost, childVars, llmEffects, gitCalls, execCount, lastRoot,
                  exitView, pureVars >>

FinalLlmThrows ==
  /\ Delivered
  /\ pc = "awaitFinal"
  /\ lastFinal' = Some([kind |-> "throw", value |-> << "exception" >>])
  /\ Return(ThrownResult(llmCallCount))
  /\ UNCHANGED << cfgVars, i, llmCallCount, conversation, trace, code, subCallsBefore,
                  output, expired, initialized, staleHandlers, inflight, toChild, responses,
                  toHost, childVars, llmEffects, gitCalls, execCount, lastRoot,
                  exitView, pureVars >>

\* ------------------------------------------------- createSandbox: host side
\* the message listeners that execute calls have added and not removed: those
\* of executes that timed out, and that of the outstanding execute
Handlers == staleHandlers + (IF pc = "awaitExec" THEN 1 ELSE 0)

Copies(n, x) == [j \in 1..n |-> x]
Response(kind, id, ok, body) == [kind |-> kind, id |-> id, ok |-> ok, body |-> body]

\* trackedLlmCall run by k handlers in turn, from the count cnt
RECURSIVE TrackedCalls(_, _)
TrackedCalls(k, cnt) ==
  IF k = 0 THEN [cnt |-> cnt, passed |-> 0]
  ELSE IF trackedLlmCallAdmits(cnt)
       THEN LET r == TrackedCalls(k - 1, cnt + 1)
            IN [cnt |-> r.cnt, passed |-> r.passed + 1]
       ELSE TrackedCalls(k - 1, cnt)

\* the raw argument list handed on instead of the sanitized one
GitArgsRaw(raw, sanitized) == raw
\* the argument list handed to the injected git effect
GitArgsPassed(raw, sanitized) == sanitized.value

\* the init listener: the child is ready; an execute waiting for it goes on
HostRecvReady ==
  /\ workerAlive
  /\ Len(toHost) > 0
  /\ Head(toHost).kind = "ready"
  /\ toHost' = Tail(toHost)
  /\ initialized' = TRUE
  /\ IF pc = "awaitInit"
     THEN Execute(code, toChild, TRUE)
     ELSE UNCHANGED << pc, toChild, execCount >>
  /\ UNCHANGED << cfgVars, responses, i, llmCallCount, conversation, trace, code, subCallsBefore,
                  output, result, expired, staleHandlers, inflight, workerAlive,
                  terminateCount, childVars, llmEffects, gitCalls, lastRoot,
                  lastFinal, exitView, pureVars >>

\* llm-request: every registered handler calls onLlmCall (trackedLlmCall);
\* a refused call is answered at once, an admitted one when the effect returns
HostRecvLlmRequest ==
  /\ workerAlive
  /\ Len(toHost) > 0
  /\ Head(toHost).kind = "llm-request"
  /\ LET msg == Head(toHost)
         r == TrackedCalls(Handlers, llmCallCount)
     IN /\ llmCallCount' = r.cnt
        /\ llmEffects' = llmEffects + r.passed
        /\ inflight' = inflight \o Copies(r.passed, [kind |-> "llm", id |-> msg.id])
        /\ responses' = responses \o Copies(Handlers - r.passed,
                                   Response("llm-response", msg.id, FALSE, BudgetMessage))
  /\ toHost' = Tail(toHost)
  /\ UNCHANGED << cfgVars, toChild, pc, i, conversation, trace, code, subCallsBefore, output,
                  result, expired, initialized, staleHandlers, workerAlive,
                  terminateCount, childVars, gitCalls, execCount, lastRoot, lastFinal,
                  exitView, pureVars >>

\* gitlog-request: every registered handler sanitizes the arguments and only
\* then calls onGitLog; rejected arguments are answered at once with ok = false
HostRecvGitlogRequest ==
  /\ workerAlive
  /\ Len(toHost) > 0
  /\ Head(toHost).kind = "gitlog-request"
  /\ LET msg == Head(toHost)
         sanitized == sanitizeGitLogArgs(msg.body)
     IN IF ~sanitized.ok
        THEN /\ responses' = responses \o Copies(Handlers,
                    Response("gitlog-response", msg.id, FALSE, << sanitized.error >>))
             /\ UNCHANGED << gitCalls, inflight >>
        ELSE /\ gitCalls' = gitCalls \o Copies(Handlers,
                    [id |-> msg.id, raw |-> msg.body,
                     args |-> GitArgsPassed(msg.body, sanitized)])
             /\ inflight' = inflight \o Copies(Handlers, [kind |-> "git", id |-> msg.id])
             /\ responses' = responses
  /\ toHost' = Tail(toHost)
  /\ UNCHANGED << cfgVars, toChild, replVars, expired, initialized, staleHandlers, workerAlive,
                  terminateCount, childVars, llmEffects, execCount, lastRoot,
                  lastFinal, exitView, pureVars >>

\* result: every registered handler clears its timer, removes itself and
\* resolves its execute; the outstanding execute resolves with this output and
\* the loop goes on: trace entry, done check, error or output feedback
HostRecvResult ==
  /\ workerAlive
  /\ Len(toHost) > 0
  /\ Head(toHost).kind = "result"
  /\ toHost' = Tail(toHost)
  /\ staleHandlers' = 0
  /\ IF pc = "awaitExec"
     THEN LET out == Head(toHost).body
              tr == Append(trace, OutputTrace(i, code, out, llmCallCount - subCallsBefore))
          IN /\ output' = Some(out)
             /\ IF DoneSignalled(out)
                THEN /\ Return(DoneResult(i, llmCallCount, out))
                     /\ trace' = tr
                     /\ UNCHANGED << i, llmCallCount, conversation, llmEffects, exitView >>
                ELSE IF Truthy(out.error)
                THEN LoopFrom(i + 1, llmCallCount,
                              Append(conversation, ErrorTurn(out)), tr)
                ELSE LoopFrom(i + 1, llmCallCount,
                              Append(conversation, OutputTurn(out)), tr)
     ELSE UNCHANGED << pc, i, llmCallCount, conversation, trace, output, result,
                       workerAlive, terminateCount, llmEffects, exitView >>
  /\ UNCHANGED << cfgVars, code, subCallsBefore, expired, initialized, inflight,
                  toChild, responses, childVars, gitCalls, execCount, lastRoot, lastFinal,
                  pureVars >>

\* an injected effect called by a handler returns; the handler posts the
\* response (after terminate the post reaches no worker and changes nothing)
EffectReturns ==
  /\ Delivered
  /\ workerAlive
  /\ \E k \in 1..Len(inflight), ok \in BOOLEAN :
       LET e == inflight[k]
           kind == IF e.kind = "llm" THEN "llm-response" ELSE "gitlog-response"
           body == IF ok THEN << "effect output" >> ELSE << "effect failed" >>
       IN /\ inflight' = SubSeq(inflight, 1, k - 1) \o SubSeq(inflight, k + 1, Len(inflight))
          /\ responses' = Append(responses, Response(kind, e.id, ok, body))
  /\ UNCHANGED << cfgVars, toChild, replVars, expired, initialized, staleHandlers, workerAlive,
                  terminateCount, toHost, childVars, obsVars, pureVars >>

\* ------------------------------------------------ the Worker source (child)
\* The fragment of each execute answers with a text of its own, so that an
\* answer shows which fragment gave it.
FragmentMark(exec) ==
  CASE exec = 1 -> "by fragment 1"
    [] exec = 2 -> "by fragment 2"
    [] OTHER -> "by a later fragment"
\* what done() may be called with: the empty string, or an answer
DoneAnswers(exec) == { << >>, << "Found 2 auth commits", FragmentMark(exec) >> }
\* the argument lists sandbox code passes to gitLog
GitArgChoices ==
  { << << "-", "n" >>, << "1", "0", "0" >> >>,
    << << "-", "-", "e", "x", "e", "c" >> >> }

\* the result message: { stdout, error, done: doneSignal !== null, doneAnswer }
ResultMessage(err) ==
  [kind |-> "result", id |-> 0, ok |-> TRUE,
   body |-> [stdout |-> stdoutBuffer, error |-> err,
             done |-> ~IsNull(doneSignal), doneAnswer |-> doneSignal]]

ChildRuns == Delivered /\ workerAlive
Running(f) == f \in frags /\ f.wait = 0
childFrame == << cfgVars, replVars, expired, hostVars, obsVars, pureVars >>

\* init: load the environment and answer ready
ChildRecvInit ==
  /\ ChildRuns
  /\ Len(toChild) > 0
  /\ Head(toChild).kind = "init"
  /\ toChild' = Tail(toChild)
  /\ childReady' = TRUE
  /\ toHost' = Append(toHost, [kind |-> "ready", id |-> 0, ok |-> TRUE, body |-> << >>])
  /\ UNCHANGED << nextRequestId, pendingRequests, stdoutBuffer, doneSignal, frags,
                  responses, globals >>
  /\ UNCHANGED childFrame

\* execute without the reset of stdoutBuffer and doneSignal
ChildRecvExecuteKeepingOutput ==
  /\ ChildRuns
  /\ Len(toChild) > 0
  /\ Head(toChild).kind = "execute"
  /\ toChild' = Tail(toChild)
  /\ UNCHANGED << stdoutBuffer, doneSignal >>
  /\ \E compiles \in BOOLEAN :
       IF compiles
       THEN /\ frags' = frags \cup { [exec |-> Head(toChild).id, wait |-> 0] }
            /\ toHost' = toHost
       ELSE /\ frags' = frags
            /\ toHost' = Append(toHost,
                 [kind |-> "result", id |-> 0, ok |-> TRUE,
                  body |-> [stdout |-> stdoutBuffer, error |-> Some(<< "SyntaxError" >>),
                            done |-> ~IsNull(doneSignal), doneAnswer |-> doneSignal]])
  /\ UNCHANGED << globals, childReady, nextRequestId, pendingRequests, responses >>
  /\ UNCHANGED childFrame
\* execute: reset stdoutBuffer and doneSignal; the code does not compile and
\* the result is posted at once, or the fragment starts
ChildRecvExecute ==
  /\ ChildRuns
  /\ Len(toChild) > 0
  /\ Head(toChild).kind = "execute"
  /\ toChild' = Tail(toChild)
  /\ stdoutBuffer' = << >>
  /\ doneSignal' = None
  /\ \E compiles \in BOOLEAN :
       IF compiles
       THEN /\ frags' = frags \cup { [exec |-> Head(toChild).id, wait |-> 0] }
            /\ toHost' = toHost
       ELSE /\ frags' = frags
            /\ toHost' = Append(toHost,
                 [kind |-> "result", id |-> 0, ok |-> TRUE,
                  body |-> [stdout |-> << >>, error |-> Some(<< "SyntaxError" >>),
                            done |-> FALSE, doneAnswer |-> None]])
  /\ UNCHANGED << globals, childReady, nextRequestId, pendingRequests, responses >>
  /\ UNCHANGED childFrame

\* a response lets every awaiting fragment go on, whatever its id
ChildRecvResponseToAll ==
  /\ workerAlive
  /\ Len(toHost) = 0
  /\ Len(responses) > 0
  /\ responses' = Tail(responses)
  /\ LET msg == Head(responses)
         waiting == { f \in frags : f.wait # 0 }
         resumed == { [f EXCEPT !.wait = 0] : f \in waiting }
     IN IF msg.id \notin pendingRequests
        THEN UNCHANGED << pendingRequests, frags >>
        ELSE /\ pendingRequests' = pendingRequests \ { msg.id }
             /\ frags' = (frags \ waiting) \cup resumed
  /\ UNCHANGED << globals, childReady, nextRequestId, stdoutBuffer, doneSignal, toChild,
                  toHost >>
  /\ UNCHANGED childFrame
\* llm-response or gitlog-response: settle the pending request with that id
\* and remove it; the fragment awaiting it goes on with the value, or with the
\* rejection thrown at its await (FragThrow is the fragment not catching it)
ChildRecvResponse ==
  /\ workerAlive
  /\ Len(toHost) = 0
  /\ Len(responses) > 0
  /\ responses' = Tail(responses)
  /\ LET msg == Head(responses)
         waiting == { f \in frags : f.wait = msg.id }
         resumed == { [f EXCEPT !.wait = 0] : f \in waiting }
     IN IF msg.id \notin pendingRequests
        THEN UNCHANGED << pendingRequests, frags >>
        ELSE /\ pendingRequests' = pendingRequests \ { msg.id }
             /\ frags' = (frags \ waiting) \cup resumed
  /\ UNCHANGED << globals, childReady, nextRequestId, stdoutBuffer, doneSignal, toChild,
                  toHost >>
  /\ UNCHANGED childFrame

\* console.log
FragLog ==
  /\ ChildRuns
  /\ \E f \in frags :
       /\ Running(f)
       /\ Len(stdoutBuffer) < MaxStdout
       /\ stdoutBuffer' = Append(stdoutBuffer, "line")
  /\ UNCHANGED << globals, childReady, nextRequestId, pendingRequests, doneSignal, frags, toChild, responses, toHost >>
  /\ UNCHANGED childFrame

\* globalThis.myVar = ...: the fragment sets a variable on the global scope;
\* globals is the execution that set it last, 0 while it is unset
FragSetGlobal ==
  /\ ChildRuns
  /\ \E f \in frags :
       /\ Running(f)
       /\ globals # f.exec
       /\ globals' = f.exec
  /\ UNCHANGED << childReady, nextRequestId, pendingRequests, stdoutBuffer, doneSignal,
                  frags, toChild, responses, toHost >>
  /\ UNCHANGED childFrame

\* done(answer)
FragDone ==
  /\ ChildRuns
  /\ \E f \in frags :
       /\ Running(f)
       /\ \E answer \in DoneAnswers(f.exec) :
            /\ doneSignal # Some(answer)
            /\ doneSignal' = Some(answer)
  /\ UNCHANGED << globals, childReady, nextRequestId, pendingRequests, stdoutBuffer, frags, toChild, responses, toHost >>
  /\ UNCHANGED childFrame

\* callLlm(msgs): a fresh id, the llm-request, a pending promise the fragment awaits
FragCallLlm ==
  /\ ChildRuns
  /\ nextRequestId <= maxRequests
  /\ \E f \in frags :
       /\ Running(f)
       /\ frags' = (frags \ { f }) \cup { [f EXCEPT !.wait = nextRequestId] }
  /\ toHost' = Append(toHost, [kind |-> "llm-request", id |-> nextRequestId,
                               ok |-> TRUE, body |-> << >>])
  /\ pendingRequests' = pendingRequests \cup { nextRequestId }
  /\ nextRequestId' = nextRequestId + 1
  /\ UNCHANGED << globals, childReady, stdoutBuffer, doneSignal, toChild, responses >>
  /\ UNCHANGED childFrame

\* gitLog(args)
FragGitLog ==
  /\ ChildRuns
  /\ nextRequestId <= maxRequests
  /\ \E f \in frags, args \in GitArgChoices :
       /\ Running(f)
       /\ frags' = (frags \ { f }) \cup { [f EXCEPT !.wait = nextRequestId] }
       /\ toHost' = Append(toHost, [kind |-> "gitlog-request", id |-> nextRequestId,
                                    ok |-> TRUE, body |-> args])
  /\ pendingRequests' = pendingRequests \cup { nextRequestId }
  /\ nextRequestId' = nextRequestId + 1
  /\ UNCHANGED << globals, childReady, stdoutBuffer, doneSignal, toChild, responses >>
  /\ UNCHANGED childFrame

\* the fragment returns: the result is posted with err = null
FragReturn ==
  /\ ChildRuns
  /\ \E f \in frags :
       /\ Running(f)
       /\ frags' = frags \ { f }
  /\ toHost' = Append(toHost, ResultMessage(None))
  /\ UNCHANGED << globals, childReady, nextRequestId, pendingRequests, stdoutBuffer,
                  doneSignal, toChild, responses >>
  /\ UNCHANGED childFrame

\* the fragment throws: the result is posted with the message as error.
\* (A fragment that never returns, awaiting for ever or looping, is the
\* behaviour in which the child takes no further step.)
FragThrow ==
  /\ ChildRuns
  /\ \E f \in frags :
       /\ Running(f)
       /\ frags' = frags \ { f }
  /\ toHost' = Append(toHost, ResultMessage(Some(<< "boom" >>)))
  /\ UNCHANGED << globals, childReady, nextRequestId, pendingRequests, stdoutBuffer,
                  doneSignal, toChild, responses >>
  /\ UNCHANGED childFrame

\* ------------------------------------------------------------ specification
\* runRepl not yet started, no sandbox created
InitRun ==
  /\ pc = "start"
  /\ i = 0
  /\ llmCallCount = 0
  /\ conversation = << >>
  /\ trace = << >>
  /\ code = << >>
  /\ subCallsBefore = 0
  /\ output = None
  /\ result = NoResult
  /\ expired = FALSE
  /\ initialized = FALSE
  /\ staleHandlers = 0
  /\ inflight = << >>
  /\ workerAlive = TRUE
  /\ terminateCount = 0
  /\ toChild = << >>
  /\ toHost = << >>
  /\ responses = << >>
  /\ childReady = FALSE
  /\ nextRequestId = 1
  /\ pendingRequests = { }
  /\ stdoutBuffer = << >>
  /\ doneSignal = None
  /\ frags = { }
  /\ globals = 0
  /\ llmEffects = 0
  /\ gitCalls = << >>
  /\ execCount = 0
  /\ lastRoot = None
  /\ lastFinal = None
  /\ exitView = None
InitRepl ==
  /\ maxIterations \in 0..MaxIter
  /\ maxLlmCalls \in 0..MaxCalls
  /\ maxRequests = MaxReq
  /\ InitRun

\* no pure function is being applied
SanIdle == sanArgs = << >> /\ sanOut = None
QueryIdle == qIndex = None /\ qParams = NoParams /\ qOut = None
MatchIdle == mKey = << >> /\ mPat = << >> /\ mOut = None
MemoryIdle ==
  /\ wmFile = None
  /\ wmNow = 0
  /\ wmSummaries = {}
  /\ wmCalls = << >>
  /\ wmLast = NoCall
FnIdle == fnArgs = << >> /\ fnOut = None
FilesIdle == files = << >>
IndexIdle == ixHead = 0 /\ ixCommits = 0 /\ ixFile = None /\ ixLast = NoCall
\* no REPL run is going on
ReplIdle == InitRepl /\ maxIterations = 0 /\ maxLlmCalls = 0

Init ==
  /\ InitRepl
  /\ SanIdle
  /\ QueryIdle
  /\ MatchIdle
  /\ MemoryIdle
  /\ IndexIdle
  /\ FilesIdle
  /\ FnIdle

Next ==
  \/ ReplStart
  \/ BudgetExpires
  \/ RootLlmFails
  \/ RootLlmThrows
  \/ RootLlmAnswers
  \/ ExecTimeout
  \/ FinalLlmAnswers
  \/ FinalLlmFails
  \/ FinalLlmThrows
  \/ HostRecvReady
  \/ HostRecvLlmRequest
  \/ HostRecvGitlogRequest
  \/ HostRecvResult
  \/ EffectReturns
  \/ ChildRecvInit
  \/ ChildRecvExecute
  \/ ChildRecvResponse
  \/ FragLog
  \/ FragSetGlobal
  \/ FragDone
  \/ FragCallLlm
  \/ FragGitLog
  \/ FragReturn
  \/ FragThrow

Spec == Init /\ [][Next]_vars

\* ------------------------------------------- the Worker under any host
\* The worker source explored on its own: a host that creates the sandbox,
\* posts execute messages whenever it likes (as runRepl does after a timeout),
\* takes the worker's messages and posts responses with any id, in any order
\* and any number.  Every host behaviour of Spec is one of these.
\* createSandbox: the worker is created and the init message posted
HostCreatesSandbox ==
  /\ pc = "start"
  /\ pc' = "sandbox"
  /\ toChild' = Append(toChild, [kind |-> "init", id |-> 0, ok |-> TRUE, body |-> << >>])
  /\ UNCHANGED << cfgVars, i, llmCallCount, conversation, trace, code, subCallsBefore,
                  output, result, expired, hostVars, toHost, responses, childVars,
                  obsVars, pureVars >>
\* execute, once the ready message has been seen: the execute message is posted
HostPostsExecute ==
  /\ pc = "sandbox"
  /\ initialized
  /\ execCount < MaxIter
  /\ toChild' = Append(toChild, [kind |-> "execute", id |-> execCount + 1, ok |-> TRUE,
                                 body |-> << "code" >>])
  /\ execCount' = execCount + 1
  /\ UNCHANGED << cfgVars, replVars, expired, hostVars, toHost, responses, childVars,
                  llmEffects, gitCalls, lastRoot, lastFinal, exitView, pureVars >>
\* the message listeners take a message of the worker
HostTakesMessage ==
  /\ pc = "sandbox"
  /\ Len(toHost) > 0
  /\ toHost' = Tail(toHost)
  /\ initialized' = (initialized \/ Head(toHost).kind = "ready")
  /\ UNCHANGED << cfgVars, replVars, expired, staleHandlers, inflight, workerAlive,
                  terminateCount, toChild, responses, childVars, obsVars, pureVars >>
\* a message listener posts an llm-response or a gitlog-response
HostPostsResponse ==
  /\ pc = "sandbox"
  /\ Delivered
  /\ \E kind \in { "llm-response", "gitlog-response" }, id \in 1..maxRequests,
        ok \in BOOLEAN :
       responses' = Append(responses, Response(kind, id, ok,
                      IF ok THEN << "effect output" >> ELSE << "effect failed" >>))
  /\ UNCHANGED << cfgVars, replVars, expired, hostVars, toChild, toHost, childVars,
                  obsVars, pureVars >>

InitWorker ==
  /\ maxIterations = 0
  /\ maxLlmCalls = 0
  /\ maxRequests = MaxWorkerReq
  /\ InitRun
  /\ SanIdle
  /\ QueryIdle
  /\ MatchIdle
  /\ MemoryIdle
  /\ IndexIdle
  /\ FilesIdle
  /\ FnIdle
NextWorker ==
  \/ HostCreatesSandbox
  \/ HostPostsExecute
  \/ HostTakesMessage
  \/ HostPostsResponse
  \/ ChildRecvInit
  \/ ChildRecvExecute
  \/ ChildRecvResponse
  \/ FragLog
  \/ FragSetGlobal
  \/ FragDone
  \/ FragCallLlm
  \/ FragGitLog
  \/ FragReturn
  \/ FragThrow
SpecWorker == InitWorker /\ [][NextWorker]_vars

\* runRepl with a budget of one LLM call more than the root calls of the loop:
\* after the last iteration the forced final call is still allowed, and a
\* sub-call can meet every state of the budget
InitSubCalls ==
  /\ maxIterations = MaxIter
  /\ maxLlmCalls = MaxIter + 1
  /\ maxRequests = MaxReq
  /\ InitRun
  /\ SanIdle
  /\ QueryIdle
  /\ MatchIdle
  /\ MemoryIdle
  /\ IndexIdle
  /\ FilesIdle
  /\ FnIdle
SpecSubCalls == InitSubCalls /\ [][Next]_vars

\* sanitizeGitLogArgs applied to every argument list of ArgLists
Sanitize ==
  /\ IsNull(sanOut)
  /\ sanOut' = Some(sanitizeGitLogArgs(sanArgs))
  /\ UNCHANGED << runVars, fsVars, fnVars, sanArgs, queryVars, matchVars, wmVars, ixVars >>

InitSanitize ==
  /\ ReplIdle
  /\ sanArgs \in ArgLists
  /\ sanOut = None
  /\ QueryIdle
  /\ MatchIdle
  /\ MemoryIdle
  /\ IndexIdle
  /\ FilesIdle
  /\ FnIdle

SpecSanitize == InitSanitize /\ [][Sanitize]_vars

\* query applied once to an index and a parameter set
Query ==
  /\ IsNull(qOut)
  /\ qOut' = Some(query(qIndex, qParams))
  /\ UNCHANGED << runVars, fsVars, fnVars, sanVars, qIndex, qParams, matchVars, wmVars, ixVars >>

InitQuery ==
  /\ ReplIdle
  /\ SanIdle
  /\ qIndex \in Indexes
  /\ qParams \in ParamSets
  /\ qOut = None
  /\ MatchIdle
  /\ MemoryIdle
  /\ IndexIdle
  /\ FilesIdle
  /\ FnIdle

SpecQuery == InitQuery /\ [][Query]_vars

\* scopeMatches applied once to a stored key and a pattern
Match ==
  /\ IsNull(mOut)
  /\ mOut' = Some(scopeMatches(mKey, mPat))
  /\ UNCHANGED << runVars, fsVars, fnVars, sanVars, queryVars, mKey, mPat, wmVars, ixVars >>

InitMatch ==
  /\ ReplIdle
  /\ SanIdle
  /\ QueryIdle
  /\ mKey \in ScopeStrings
  /\ mPat \in ScopeStrings
  /\ mOut = None
  /\ MemoryIdle
  /\ IndexIdle
  /\ FilesIdle
  /\ FnIdle

SpecMatch == InitMatch /\ [][Match]_vars

\* the working-memory file under the calls of the CLI and the hooks
InitMemory ==
  /\ ReplIdle
  /\ SanIdle
  /\ QueryIdle
  /\ MatchIdle
  /\ MemoryIdle
  /\ IndexIdle
  /\ FilesIdle
  /\ FnIdle

NextMemory ==
  \/ AddEntry
  \/ LoadMemory
  \/ ClearMemory
  \/ StopHook

SpecMemory == InitMemory /\ [][NextMemory]_vars

\* the trailer-index file under commits, rebuilds, loads and the bridge hook
InitIndex ==
  /\ ReplIdle
  /\ SanIdle
  /\ QueryIdle
  /\ MatchIdle
  /\ MemoryIdle
  /\ IndexIdle
  /\ FilesIdle
  /\ FnIdle

NextIndex ==
  \/ GitCommit
  \/ GitCheckout
  \/ BuildIndex
  \/ LoadIndex
  \/ BridgeHook

SpecIndex == InitIndex /\ [][NextIndex]_vars

\* extractPromptSignals applied once to a prompt and a scope-key list
ExtractSignals ==
  /\ IsNull(fnOut)
  /\ fnOut' = Some(extractPromptSignals(fnArgs.prompt, fnArgs.scopeKeys))
  /\ UNCHANGED << runVars, fsVars, sanVars, queryVars, matchVars, wmVars, ixVars, fnArgs >>

InitSignals ==
  /\ ReplIdle
  /\ SanIdle
  /\ QueryIdle
  /\ MatchIdle
  /\ MemoryIdle
  /\ IndexIdle
  /\ FilesIdle
  /\ fnArgs \in [prompt : Prompts, scopeKeys : ScopeKeyLists]
  /\ fnOut = None

SpecSignals == InitSignals /\ [][ExtractSignals]_vars

\* splitHeaderBodyTrailers applied once to the text below the header
SplitTrailers ==
  /\ IsNull(fnOut)
  /\ fnOut' = Some(splitHeaderBodyTrailers(fnArgs))
  /\ UNCHANGED << runVars, fsVars, sanVars, queryVars, matchVars, wmVars, ixVars, fnArgs >>

InitSplit ==
  /\ ReplIdle
  /\ SanIdle
  /\ QueryIdle
  /\ MatchIdle
  /\ MemoryIdle
  /\ IndexIdle
  /\ FilesIdle
  /\ fnArgs \in RawBodies
  /\ fnOut = None

SpecSplit == InitSplit /\ [][SplitTrailers]_vars

\* validate applied once to a commit message
Validate ==
  /\ IsNull(fnOut)
  /\ fnOut' = Some(validate(fnArgs))
  /\ UNCHANGED << runVars, fsVars, sanVars, queryVars, matchVars, wmVars, ixVars, fnArgs >>

InitValidate ==
  /\ ReplIdle
  /\ SanIdle
  /\ QueryIdle
  /\ MatchIdle
  /\ MemoryIdle
  /\ IndexIdle
  /\ FilesIdle
  /\ fnArgs \in Messages
  /\ fnOut = None

SpecValidate == InitValidate /\ [][Validate]_vars

\* two runs, one after the other, each building its system prompt
BuildPrompt ==
  /\ Len(fnOut) < 2
  /\ fnOut' = Append(fnOut, SystemPromptOf(fnArgs[Len(fnOut) + 1].env,
                                           fnArgs[Len(fnOut) + 1].replConfig))
  /\ UNCHANGED << runVars, fsVars, sanVars, queryVars, matchVars, wmVars, ixVars, fnArgs >>

InitPrompt ==
  /\ ReplIdle
  /\ SanIdle
  /\ QueryIdle
  /\ MatchIdle
  /\ MemoryIdle
  /\ IndexIdle
  /\ FilesIdle
  /\ fnArgs \in PromptRuns \X PromptRuns
  /\ fnOut = None

SpecPrompt == InitPrompt /\ [][BuildPrompt]_vars

\* the configuration file saved, loaded, written by hand and removed; fnArgs
\* is the configuration last saved while the file still holds it, fnOut the
\* configuration last loaded while the file is what was loaded
InitConfig ==
  /\ ReplIdle
  /\ SanIdle
  /\ QueryIdle
  /\ MatchIdle
  /\ MemoryIdle
  /\ IndexIdle
  /\ FnIdle
  /\ files \in [isRepo : BOOLEAN, config : { None }]

NextConfig ==
  \/ SaveConfig
  \/ LoadConfig
  \/ EditConfig
  \/ RemoveConfig

SpecConfig == InitConfig /\ [][NextConfig]_vars

\* targets: the files a project may hold before the installer first runs
CustomEntry == HookEntry("", << HookCommand(<< "echo custom" >>, FALSE) >>)
LintEntry == HookEntry("Write", << HookCommand(<< "lint.sh" >>, FALSE) >>)
\* the hook an earlier version of the installer wrote
EarlierEntry ==
  HookEntry("", << HookCommand(<< "deno run --allow-run scripts/", "git-memory-context.ts" >>,
                               FALSE) >>)
SettingsFiles ==
  { None,
    Some([valid |-> FALSE, json |-> EmptySettings]),
    JsonFile([hooks |-> None, rest |-> "permissions"]),
    JsonFile([hooks |-> Some([UserPromptSubmit |-> << CustomEntry >>]), rest |-> "none"]),
    JsonFile([hooks |-> Some([UserPromptSubmit |-> << EarlierEntry, CustomEntry >>,
                              PreToolUse |-> << LintEntry >>]), rest |-> "none"]) }
ClaudeMdFiles ==
  { None,
    Some(<< Text("# Keep me"), Break >>),
    Some(<< Text("# Keep me") >>),
    Some(<< Text("# Keep me"), Break, Break, OpenTag("git-memory"), Text("earlier instructions"),
            CloseTag("git-memory"), Break >>),
    Some(<< Text("The section ends with"), CloseTag("git-memory"), Text("and starts with"),
            OpenTag("git-memory"), Break >>) }
DenoFiles ==
  { None,
    Some([valid |-> FALSE, json |-> EmptyDenoConfig]),
    JsonFile([tasks |-> None, rest |-> "imports"]),
    JsonFile([tasks |-> Some([test |-> "deno test"]), rest |-> "none"]),
    JsonFile([tasks |-> Some([test |-> "deno test", context |-> "echo mine"]), rest |-> "none"]) }
Targets ==
  [scripts : { { }, { "scripts/own.ts", "scripts/types.ts" } },
   settings : SettingsFiles,
   claudeMd : ClaudeMdFiles,
   deno : DenoFiles]
FlagSets == [prerequisites : BOOLEAN, uninstall : BOOLEAN, dryRun : BOOLEAN, skipHooks : BOOLEAN]

\* one run of the installer; fnArgs is the target as it was before the first
\* run, fnOut the runs made
RunInstaller ==
  \E flags \in FlagSets :
    /\ Len(fnOut) < MaxRuns
    /\ files' = install(files, flags).value
    /\ fnOut' = Append(fnOut, [flags |-> flags, ok |-> install(files, flags).ok])
    /\ UNCHANGED << runVars, sanVars, queryVars, matchVars, wmVars, ixVars, fnArgs >>

InitInstall ==
  /\ ReplIdle
  /\ SanIdle
  /\ QueryIdle
  /\ MatchIdle
  /\ MemoryIdle
  /\ IndexIdle
  /\ files \in Targets
  /\ fnArgs = files
  /\ fnOut = None

SpecInstall == InitInstall /\ [][RunInstaller]_vars

\* ------------------------------------------------------------------ claims
\* the last root call returned a response / a failure
RootAnswered == Len(lastRoot) = 1 /\ lastRoot[1].kind = "ok"
RootFailed == Len(lastRoot) = 1 /\ lastRoot[1].kind = "fail"
FinalAnswered == Len(lastFinal) = 1 /\ lastFinal[1].kind = "ok"
FinalFailed == Len(lastFinal) = 1 /\ lastFinal[1].kind = "fail"
Returned == pc = "done"

\* C1: the LLM call counter (root calls, callLlm sub-calls, the forced final
\* call) never exceeds maxLlmCalls + 1, in any reachable state and in the
\* llmCalls field of the returned result; it counts every call of the
\* injected LLM effect.
C1_CallBudget ==
  /\ llmCallCount <= maxLlmCalls + 1
  /\ llmEffects = llmCallCount
  /\ result.kind = "ok" => /\ result.llmCalls <= maxLlmCalls + 1
                           /\ result.llmCalls = llmCallCount
\* a run that spent its whole budget on root calls and a sub-call has returned
C1_Witness ==
  /\ Returned
  /\ result.kind = "ok"
  /\ maxLlmCalls = MaxCalls
  /\ result.llmCalls = maxLlmCalls
  /\ \E k \in 1..Len(trace) : trace[k].subCallCount > 0

\* C2: the sandbox is terminated exactly once on every exit path (done(),
\* text answer, LLM failure, forced final answer, degraded answer, thrown
\* exception): terminate() has been called once when runRepl has returned,
\* and not at all before.
C2_TerminatedOnce ==
  /\ terminateCount = (IF Returned THEN 1 ELSE 0)
  /\ Returned <=> ~workerAlive
  /\ Returned <=> result.kind # "none"
\* the exit by an exception thrown out of the forced final call, after an
\* iteration that executed code
C2_Witness ==
  /\ Returned
  /\ result.kind = "threw"
  /\ Len(lastFinal) = 1
  /\ Len(trace) > 0
  /\ terminateCount = 1

\* C3 (as stated): a root response without a fenced code block makes runRepl
\* return ok with that text and iterations = 1.
C3_IterationsIsOne ==
  (RootAnswered /\ IsNull(extractCodeBlock(lastRoot[1].value)))
    => /\ Returned
       /\ result.kind = "ok"
       /\ result.answer = lastRoot[1].value
       /\ result.iterations = 1
\* C3 (amended): a root response without a fenced code block makes runRepl
\* return ok with that text and iterations = i + 1, the number of root calls
\* made (1 only when the first response is the text); once runRepl has
\* returned, nothing further is dispatched to the sandbox or the LLM.
C3_TextAnswer ==
  /\ [](RootAnswered /\ IsNull(extractCodeBlock(lastRoot[1].value))
          => /\ Returned
             /\ result.kind = "ok"
             /\ result.answer = lastRoot[1].value
             /\ result.iterations = i + 1
             /\ result.iterations = Len(trace) + 1)
  /\ [][Returned => /\ execCount' = execCount
                    /\ toChild' = toChild
                    /\ responses' = responses
                    /\ llmEffects' = llmEffects
                    /\ gitCalls' = gitCalls]_vars
\* the text answer comes in the second iteration, after code was executed
C3_Witness ==
  /\ Returned
  /\ RootAnswered
  /\ IsNull(extractCodeBlock(lastRoot[1].value))
  /\ result.iterations = 2
  /\ execCount = 1

\* the loop has ended without done() and without a text answer, and at that
\* point the LLM budget and the wall clock did / did not allow the final call
LoopEnded == Len(exitView) = 1
FinalAllowed == exitView[1].llmCallCount < maxLlmCalls /\ ~exitView[1].expired
\* the feedback turn of iteration k (1-based) is in the conversation
IsErrorEntry(e) == Len(e.executionResult) > 0 /\ e.executionResult[1] = "ERROR: "
FeedbackGiven(k) ==
  /\ Len(conversation) >= 2 * k + 2
  /\ conversation[2 * k + 1].role = "assistant"
  /\ conversation[2 * k + 2].role = "user"
  /\ conversation[2 * k + 2].content[1] =
       (IF IsErrorEntry(trace[k]) THEN "Execution error: " ELSE "Output:")

\* C4 (as stated): whenever the output of an executed fragment has done = true
\* and a non-null doneAnswer (any string passed to done()), runRepl returns
\* ok at once with answer = doneAnswer, whether or not the fragment also
\* raised an error.
C4_DoneReturns ==
  (Len(output) = 1 /\ output[1].done /\ ~IsNull(output[1].doneAnswer))
    => /\ Returned
       /\ result.kind = "ok"
       /\ result.answer = output[1].doneAnswer[1]

\* C5: runRepl never returns a failure because of the sandbox.  Its result is
\* a failure only if the last root call failed, with that call's error; and
\* every iteration that executed code without ending the run (a timeout, a
\* syntax error, an exception, plain output) has left its feedback turn in
\* the conversation.
C5_SandboxNeverFails ==
  /\ result.kind = "fail" => RootFailed /\ result.error = lastRoot[1].value
  /\ \A k \in 1..Len(trace) :
       \/ Returned /\ k = Len(trace) /\ Len(output) = 1 /\ DoneSignalled(output[1])
       \/ FeedbackGiven(k)
\* a run with a timed-out execute and then a fragment error has returned ok
C5_Witness ==
  /\ Returned
  /\ result.kind = "ok"
  /\ Len(trace) = 2
  /\ trace[1].executionResult = << "ERROR: " >> \o TimedOutMessage
  /\ IsErrorEntry(trace[2])
  /\ trace[2].executionResult # trace[1].executionResult

\* C6 (as stated): a failure of a root call or of the forced final call makes
\* runRepl return a failure carrying that error.
C6_AllFailuresPropagate ==
  /\ RootFailed => Returned /\ result.kind = "fail" /\ result.error = lastRoot[1].value
  /\ FinalFailed => Returned /\ result.kind = "fail" /\ result.error = lastFinal[1].value
\* C6 (amended): a failure of a root call makes runRepl return a failure
\* carrying that error, after terminating the sandbox; a failure of the
\* forced final call is not propagated: runRepl returns ok with the last
\* trace entry's execution result (or the placeholder) as the answer.
C6_RootFailurePropagates ==
  /\ RootFailed => /\ Returned
                   /\ result.kind = "fail"
                   /\ result.error = lastRoot[1].value
                   /\ terminateCount = 1
  /\ FinalFailed => /\ Returned
                    /\ result.kind = "ok"
                    /\ result.answer = lastOutput(trace)
                    /\ result.iterations = Len(trace)
                    /\ terminateCount = 1
\* a root call fails in the second iteration
C6_Witness ==
  /\ RootFailed
  /\ Returned
  /\ Len(trace) = 1
  /\ result.error = << "connection refused" >>

\* C7 (as stated): when the loop ends without done() and without a text
\* answer, either the budgets allow the final call, and runRepl makes it and
\* returns its text as the answer, or they do not, and runRepl makes no
\* further LLM call and returns ok with the last trace entry's execution
\* result (or the placeholder) as the answer.
C7_TextOrDegraded ==
  (LoopEnded /\ Returned /\ result.kind # "threw")
    => IF FinalAllowed
       THEN /\ Len(lastFinal) = 1
            /\ result.kind = "ok"
            /\ result.answer = lastFinal[1].value
       ELSE /\ IsNull(lastFinal)
            /\ result.kind = "ok"
            /\ result.answer = lastOutput(trace)
\* C7 (amended): when the loop ends without done() and without a text answer:
\* if llmCallCount < maxLlmCalls and the wall clock allows, the REPL appends
\* the 'Iteration budget exhausted' turn and makes exactly one more LLM call,
\* and returns its text as the answer if that call succeeds; if that call
\* fails, or if the budgets did not allow it (no further call is made then),
\* runRepl returns ok with the last trace entry's execution result, or the
\* placeholder when the trace is empty.  No failure is returned on this path.
C7_ForcedFinalAnswer ==
  /\ [](LoopEnded =>
          /\ result.kind # "fail"
          /\ FinalAllowed <=> (pc = "awaitFinal" \/ Len(lastFinal) = 1)
          /\ FinalAllowed => conversation[Len(conversation)] = ExhaustedTurn
          /\ ~FinalAllowed => Returned
          /\ (Returned /\ FinalAnswered)
               => /\ result.kind = "ok"
                  /\ result.answer = lastFinal[1].value
                  /\ result.iterations = maxIterations + 1
          /\ (Returned /\ (FinalFailed \/ ~FinalAllowed))
               => /\ result.kind = "ok"
                  /\ result.answer = lastOutput(trace)
                  /\ result.iterations = Len(trace))
  \* the final call is one call, counted once; while it is awaited the driver
  \* makes no other, and its completion ends the run
  /\ [][/\ (pc # "awaitFinal" /\ pc' = "awaitFinal")
             => /\ llmCallCount' = llmCallCount + 1
                /\ llmEffects' = llmEffects + 1
                /\ llmCallCount < maxLlmCalls
                /\ ~expired
        /\ (pc = "awaitFinal" /\ llmEffects' # llmEffects)
             => /\ Len(toHost) = 1
                /\ Head(toHost).kind = "llm-request"
        /\ (pc = "awaitFinal" /\ pc' # "awaitFinal") => pc' = "done"
        /\ (pc # "awaitFinal" /\ LoopEnded) => pc' = "done"]_vars
\* the forced final call failed after an iteration that produced output
C7_Witness ==
  /\ Returned
  /\ LoopEnded
  /\ FinalAllowed
  /\ FinalFailed
  /\ Len(trace) > 0
  /\ result.kind = "ok"
  /\ result.answer = trace[Len(trace)].executionResult

\* C8: for every ok result, iterations <= maxIterations + 1, and the value
\* maxIterations + 1 is reported only when the forced final call was made
\* (and returned text).
C8_IterationsBound ==
  result.kind = "ok"
    => /\ result.iterations <= maxIterations + 1
       /\ result.iterations = maxIterations + 1 => FinalAnswered
\* the forced final answer after every iteration was used
C8_Witness ==
  /\ Returned
  /\ result.kind = "ok"
  /\ maxIterations > 0
  /\ Len(trace) = maxIterations
  /\ result.iterations = maxIterations + 1
  /\ FinalAnswered

C10_NoDangerousCharAccepted ==
  (Len(sanOut) = 1 /\ sanOut[1].ok)
    => \A k \in 1..Len(sanArgs) : ~DANGEROUS_CHARS(sanArgs[k])

\* ------------------------------------------- claims on sanitizeGitLogArgs
Sanitized == Len(sanOut) = 1
DashN == << "-", "n" >>
\* a string that is a decimal integer, and nothing else
AllDigits(str) == Len(str) > 0 /\ \A k \in 1..Len(str) : IsDigit(str[k])
\* a string that reads as a number: white space, an optional sign, digits
IsNumber(str) ==
  LET t == SkipSpace(str)
      u == IF Len(t) > 0 /\ t[1] \in { "-", "+" } THEN Tail(t) ELSE t
  IN AllDigits(u)
\* every -n of the list that has a successor is followed by an integer in 1..50
CappedN(list) ==
  \A k \in 1..(Len(list) - 1) :
    list[k] = DashN
      => /\ AllDigits(list[k + 1])
         /\ DigitPrefixValue(list[k + 1], 0) \in 1..50

LongFlags ==
  { << "-", "-", "f", "o", "r", "m", "a", "t" >>,
    << "-", "-", "a", "u", "t", "h", "o", "r" >>,
    << "-", "-", "s", "i", "n", "c", "e" >>,
    << "-", "-", "u", "n", "t", "i", "l" >>,
    << "-", "-", "g", "r", "e", "p" >>,
    << "-", "-", "n", "o", "-", "m", "e", "r", "g", "e", "s" >> }
\* the text before the first '=' of an argument
BeforeEquals(arg) ==
  IF \E k \in 1..Len(arg) : arg[k] = "="
  THEN SubSeq(arg, 1, (CHOOSE k \in 1..Len(arg) :
                         arg[k] = "=" /\ \A j \in 1..(k - 1) : arg[j] # "=") - 1)
  ELSE arg
IsLongArg(arg) == Len(arg) >= 2 /\ arg[1] = "-" /\ arg[2] = "-"
IsSingleLetterFlag(arg) == Len(arg) = 2 /\ arg[1] = "-" /\ arg[2] # "-"

TimeoutStep == pc = "awaitExec" /\ staleHandlers' = staleHandlers + 1

\* C13: when the timer of execute fires (the child has posted no result),
\* execute resolves with the failure 'Sandbox execution timed out'; the host
\* neither terminates the worker (only the return of runRepl does) nor
\* touches its state; a variable set on the child's global scope changes
\* only when a running fragment sets it, so it stays visible to later
\* executes.
C13_TimeoutKeepsState ==
  /\ [][TimeoutStep
          => /\ Len(toHost) = 0
             /\ childVars' = childVars
             /\ toChild' = toChild
             /\ trace' = Append(trace, TimeoutTrace(i, code, llmCallCount - subCallsBefore))
             /\ trace'[Len(trace')].executionResult = << "ERROR: ", "Sandbox execution timed out" >>
             /\ (workerAlive' \/ pc' = "done")]_vars
  /\ [][globals' # globals
          => \E f \in frags : f.wait = 0 /\ globals' = f.exec]_vars
\* the first execute set the variable and timed out; the fragment of the
\* second execute runs with the variable still set
C13_Witness ==
  /\ workerAlive
  /\ globals = 1
  /\ Len(trace) = 1
  /\ trace[1].executionResult = << "ERROR: ", "Sandbox execution timed out" >>
  /\ \E f \in frags : f.exec = 2 /\ f.wait = 0


\* ------------------------------------------------------ claims on query
Queried == Len(qOut) = 1
\* a filter the parameter set gives with a value the code takes as present
GivenIntents == Len(qParams.intents) = 1 /\ qParams.intents[1] # << >>
GivenSession == Len(qParams.session) = 1 /\ qParams.session[1] # << >>
GivenDecidedAgainst == Len(qParams.decidedAgainst) = 1 /\ qParams.decidedAgainst[1] # << >>
GivenScope == Len(qParams.scope) = 1 /\ qParams.scope[1] # << >>
NoFilterGiven == ~GivenIntents /\ ~GivenSession /\ ~GivenDecidedAgainst /\ ~GivenScope

\* C14: a query with no filter present (no scope, no session, no
\* decidedAgainst, intents absent or empty) returns the empty list for every
\* index, whatever the limit, and never all the commits.
C14_NoFilterIsEmpty == (Queried /\ NoFilterGiven) => qOut[1] = << >>
\* an index of two commits was queried with no filter and a limit
C14_Witness ==
  /\ Queried
  /\ NoFilterGiven
  /\ Len(qIndex) = 1
  /\ Len(qIndex[1].withDecidedAgainst) = 2
  /\ qParams.intents = Some(<< >>)
  /\ qParams.limit = Some(2)
  /\ qOut[1] = << >>

\* the match set of each filter, read off the buckets of the index
IntentMatchSet(idx, intents) ==
  UNION { Range(idx.byIntent[it]) : it \in Range(intents) \cap DOMAIN idx.byIntent }
SessionMatchSet(idx, session) ==
  UNION { Range(idx.bySession[se]) : se \in { session } \cap DOMAIN idx.bySession }
DecidedAgainstMatchSet(idx, kw) ==
  { h \in Range(idx.withDecidedAgainst) :
      \E k \in 1..Len(idx.commits[h].decidedAgainst) :
         wordBoundaryMatch(idx.commits[h].decidedAgainst[k], kw) }
ScopeMatchSet(idx, pat) ==
  UNION { Range(idx.byScope[sk]) : sk \in { k \in DOMAIN idx.byScope : scopeMatches(k, pat) } }
\* the hashes that lie in the match set of every given filter
Intersection(idx, p) ==
  { h \in DOMAIN idx.commits :
      /\ GivenIntents => h \in IntentMatchSet(idx, p.intents[1])
      /\ GivenSession => h \in SessionMatchSet(idx, p.session[1])
      /\ GivenDecidedAgainst => h \in DecidedAgainstMatchSet(idx, p.decidedAgainst[1])
      /\ GivenScope => h \in ScopeMatchSet(idx, p.scope[1]) }
\* the buckets of the first given filter, one after the other
FirstBuckets(idx, p) ==
  IF GivenIntents THEN IntentHashes(idx, p.intents[1])
  ELSE IF GivenSession THEN SessionHashes(idx, p.session[1])
  ELSE IF GivenDecidedAgainst THEN idx.withDecidedAgainst
  ELSE ScopeHashesUnder(idx, p.scope[1])
OutHashes == [k \in 1..Len(qOut[1]) |-> qOut[1][k].hash]
\* the answer is the intersection, each commit once, in the order of the buckets, cut at lim
AnswersIntersection(idx, p, lim) ==
  /\ Range(OutHashes) \subseteq Intersection(idx, p)
  /\ Cardinality(Range(OutHashes)) = Len(OutHashes)
  /\ Len(OutHashes) = (IF Cardinality(Intersection(idx, p)) < lim
                       THEN Cardinality(Intersection(idx, p)) ELSE lim)
  /\ OutHashes = Keep(SetOrder(FirstBuckets(idx, p)), Range(OutHashes))
  /\ \A k \in 1..Len(qOut[1]) : qOut[1][k] = idx.commits[OutHashes[k]]

\* C15: with at least one filter present, query returns exactly the commits
\* whose hashes lie in the intersection of the per-filter match sets, without
\* duplicates, in bucket insertion order, truncated to limit (20 when no limit
\* is given).
C15_QueryIsIntersection ==
  (Queried /\ ~NoFilterGiven /\ Len(qIndex) = 1) =>
    AnswersIntersection(qIndex[1], qParams,
                        IF Len(qParams.limit) = 1 THEN qParams.limit[1] ELSE DefaultLimit)

\* ------------------------------------------------ claims on scopeMatches
Matched == Len(mOut) = 1
\* C16: scopeMatches(k, p) is true iff lower(k) = lower(p) or lower(k) starts
\* with lower(p) followed by '/': the key itself and its '/'-delimited
\* descendants match, a key that only shares a character prefix does not.
C16_ScopeMatchesHierarchy ==
  Matched =>
    (mOut[1] <=> \/ toLowerCase(mKey) = toLowerCase(mPat)
                 \/ StartsWith(toLowerCase(mKey), Append(toLowerCase(mPat), "/")))
\* pattern a was matched against key ax, which only shares the prefix, and refused
C16_Witness ==
  /\ Matched
  /\ mKey = << "a", "x" >>
  /\ mPat = << "A" >>
  /\ mOut[1] = FALSE


\* ------------------------------------------------ claims on working memory
\* the entries the successful addEntry calls made, in call order
CalledEntries == [k \in 1..Len(wmCalls) |-> [text |-> wmCalls[k].text,
                                               timestamp |-> wmCalls[k].timestamp]]
OneSessionCalled(s) == Len(wmCalls) > 0 /\ \A k \in 1..Len(wmCalls) : wmCalls[k].session = s
\* a successful addEntry step
AddStep == wmLast'.op = "add" /\ wmLast'.ok
\* under the session of the stored memory
AddsToSession == AddStep /\ ~IsNull(wmFile) /\ wmFile[1].sessionId = wmLast'.session
\* under another session than that of the stored memory
AddsToOtherSession == AddStep /\ ~IsNull(wmFile) /\ wmFile[1].sessionId # wmLast'.session

\* C17: starting from no file, after n successful addEntry calls with the
\* same sessionId and no clear in between, loadWorkingMemory(sessionId) holds
\* exactly the n entries in call order; each such addEntry keeps the earlier
\* entries, sessionId and created, and appends one entry.
C17_AppendOnly ==
  /\ [](\A s \in Sessions :
          OneSessionCalled(s) =>
            /\ ~IsNull(loadWorkingMemory(wmFile, s).value)
            /\ loadWorkingMemory(wmFile, s).value[1].entries = CalledEntries)
  /\ [][AddsToSession =>
          /\ Len(wmFile'[1].entries) = Len(wmFile[1].entries) + 1
          /\ SubSeq(wmFile'[1].entries, 1, Len(wmFile[1].entries)) = wmFile[1].entries
          /\ wmFile'[1].entries[Len(wmFile'[1].entries)].text = wmCalls'[Len(wmCalls')].text
          /\ wmFile'[1].sessionId = wmFile[1].sessionId
          /\ wmFile'[1].created = wmFile[1].created]_vars
\* two entries were added under s1 at different instants and then loaded in call order
C17_Witness ==
  /\ wmLast.op = "load"
  /\ wmLast.session = "s1"
  /\ OneSessionCalled("s1")
  /\ Len(wmCalls) = 2
  /\ ~IsNull(wmLast.value)
  /\ wmLast.value[1].created = 0
  /\ wmLast.value[1].updated = 1
  /\ wmLast.value[1].entries = << [text |-> "e2", timestamp |-> 0], [text |-> "e1", timestamp |-> 1] >>

\* C18: loadWorkingMemory(s) returns ok(absent), never an error and never
\* the stored memory, when the stored sessionId differs from s; a memory that
\* is returned is the caller's own, and addEntry under another session starts
\* a new memory that holds the new entry alone.
C18_NoSessionLeak ==
  /\ []((wmLast.op = "load" /\ ~IsNull(wmFile) /\ wmFile[1].sessionId # wmLast.session) =>
          (wmLast.ok /\ IsNull(wmLast.value)))
  /\ []((wmLast.op = "load" /\ ~IsNull(wmLast.value)) =>
          wmLast.value[1].sessionId = wmLast.session)
  /\ [][AddsToOtherSession =>
          /\ wmFile'[1].sessionId = wmLast'.session
          /\ Len(wmFile'[1].entries) = 1
          /\ wmFile'[1].entries[1].text = wmCalls'[Len(wmCalls')].text]_vars
\* a memory of s1 with an entry was loaded under s2 and reported absent
C18_Witness ==
  /\ wmLast.op = "load"
  /\ wmLast.session = "s2"
  /\ ~IsNull(wmFile)
  /\ wmFile[1].sessionId = "s1"
  /\ Len(wmFile[1].entries) = 1
  /\ wmLast.ok
  /\ IsNull(wmLast.value)

\* the Stop hook has just consolidated a memory that has entries
Consolidated ==
  wmLast.op = "stop" /\ ~IsNull(wmLast.value) /\ Len(wmLast.value[1].entries) > 0
\* C19: once the Stop hook has run for a session whose working memory has
\* entries, the session summary has been written and the working-memory file
\* no longer exists, so loadWorkingMemory(sessionId) returns absent.
C19_RemovedAfterConsolidation ==
  Consolidated =>
    /\ wmLast.session \in wmSummaries
    /\ IsNull(wmFile)
    /\ IsNull(loadWorkingMemory(wmFile, wmLast.session).value)


\* ------------------------------------------- claims on the trailer index
\* no index file, or one stamped with another commit than HEAD
IndexStale == IsNull(ixFile) \/ ixFile[1].headCommit # ixHead
\* C20: after any sequence of commits, HEAD moves and rebuilds, loadIndex
\* returns an index only when its stored headCommit equals the current HEAD;
\* when they differ or no file exists it reports absent, and the PostToolUse
\* bridge hook then prints nothing.
C20_NoStaleIndex ==
  /\ (ixLast.op \in { "load", "bridge" } /\ ~IsNull(ixLast.value)) =>
        ixLast.value[1].headCommit = ixHead
  /\ (ixLast.op = "load" /\ IndexStale) => (ixLast.ok /\ IsNull(ixLast.value))
  /\ (ixLast.op = "bridge" /\ IndexStale) => ixLast.session = NoOutput
\* the index was built at commit 1, a commit moved HEAD to 2, and the hook ran
C20_Witness ==
  /\ ixLast.op = "bridge"
  /\ ~IsNull(ixFile)
  /\ ixFile[1].headCommit = 1
  /\ ixHead = 2
  /\ IsNull(ixLast.value)
  /\ ixLast.session = NoOutput


\* ------------------------------------------------ claims on buildIndex
\* C21: in every index buildIndex produces, every hash of a bucket is a key of
\* commits whose stored field agrees with the bucket (intent equals the key,
\* scope contains the key, session equals the key, decidedAgainst non-empty),
\* and every commit with an intent i has its hash in byIntent[i].
C21_BucketsAgree ==
  Len(qIndex) = 1 =>
    LET idx == qIndex[1] IN
    /\ \A it \in DOMAIN idx.byIntent : \A h \in Range(idx.byIntent[it]) :
          h \in DOMAIN idx.commits /\ idx.commits[h].intent = Some(it)
    /\ \A sk \in DOMAIN idx.byScope : \A h \in Range(idx.byScope[sk]) :
          h \in DOMAIN idx.commits /\ sk \in Range(idx.commits[h].scope)
    /\ \A se \in DOMAIN idx.bySession : \A h \in Range(idx.bySession[se]) :
          h \in DOMAIN idx.commits /\ idx.commits[h].session = Some(se)
    /\ \A h \in Range(idx.withDecidedAgainst) :
          h \in DOMAIN idx.commits /\ Len(idx.commits[h].decidedAgainst) > 0
    /\ \A h \in DOMAIN idx.commits :
          Len(idx.commits[h].intent) = 1 =>
            /\ idx.commits[h].intent[1] \in DOMAIN idx.byIntent
            /\ h \in Range(idx.byIntent[idx.commits[h].intent[1]])
\* an index of two commits: one without intent, session and rejection under two
\* scopes, one with all of them
C21_Witness ==
  /\ Len(qIndex) = 1
  /\ DOMAIN qIndex[1].commits = { 1, 2 }
  /\ qIndex[1].commits[1].intent = None
  /\ Len(qIndex[1].commits[1].scope) = 2
  /\ qIndex[1].byIntent["enable-capability"] = << 2 >>
  /\ qIndex[1].withDecidedAgainst = << 1, 2 >>
  /\ qIndex[1].bySession[SessionS] = << 2 >>


\* ------------------------------------------ claims on extractPromptSignals
Extracted == Len(fnOut) = 1
\* the tokens that are intent synonyms
SynonymTokens == { pr[1] : pr \in INTENT_SYNONYMS }
\* C22 as stated: the three outputs of extractPromptSignals are pairwise
\* disjoint, no string occurs in more than one of scopeHints, intentHints and
\* keywords.
C22_PairwiseDisjoint ==
  Extracted =>
    /\ Range(fnOut[1].scopeHints) \cap Range(fnOut[1].intentHints) = {}
    /\ Range(fnOut[1].scopeHints) \cap Range(fnOut[1].keywords) = {}
    /\ Range(fnOut[1].intentHints) \cap Range(fnOut[1].keywords) = {}
\* C22 amended: no token consumed as a scope hint or as an intent synonym is
\* among the keywords (keywords is disjoint from scopeHints and holds no
\* synonym and no stop word); intentHints holds intent names, which may
\* coincide with a scope hint or a keyword.
C22_KeywordsExcludeConsumed ==
  Extracted =>
    /\ Range(fnOut[1].scopeHints) \cap Range(fnOut[1].keywords) = {}
    /\ Range(fnOut[1].keywords) \cap SynonymTokens = {}
    /\ Range(fnOut[1].keywords) \cap STOP_WORDS = {}
\* fix AUTH! login against the keys Auth, auth/login: one hint of each kind
C22_Witness ==
  /\ Extracted
  /\ fnOut[1].scopeHints = << << "a", "u", "t", "h" >> >>
  /\ fnOut[1].intentHints = << << "f", "i", "x", "-", "d", "e", "f", "e", "c", "t" >> >>
  /\ fnOut[1].keywords = << << "l", "o", "g", "i", "n" >> >>

\* ---------------------------------------------------------------- C23
\* a 'Key: value' line whose lower-cased key is in the allow-list
KnownKeyLine(line) ==
  LET m == TRAILER_RE(trim(line)) IN m.ok /\ toLowerCase(m.key) \in KNOWN_TRAILER_KEYS
\* a 'Key: value' line whose key is not in the allow-list
UnknownKeyLine(line) ==
  LET m == TRAILER_RE(trim(line)) IN m.ok /\ toLowerCase(m.key) \notin KNOWN_TRAILER_KEYS
\* line k is a blank separator: only known-key lines below it, none of them
\* directly above it
Separator(lines, k) ==
  /\ k < Len(lines)
  /\ trim(lines[k]) = << >>
  /\ \A j \in (k + 1)..Len(lines) : KnownKeyLine(lines[j])
  /\ \A j \in 1..(k - 1) :
       (\A n \in (j + 1)..(k - 1) : trim(lines[n]) = << >>) /\ trim(lines[j]) # << >>
         => ~KnownKeyLine(lines[j])

\* C23: the trailer lines splitHeaderBodyTrailers returns are 'Key: value'
\* lines with an allow-listed key, taken from a run of such lines (and blank
\* lines) at the end of the message, so that a line with an unknown key is
\* never among them; and below a blank separator whose nearest line above is
\* not a known trailer, the trailers are the lines below it and the body is
\* the text above it, unknown-key lines included, unchanged but for the trim
\* of the whole.
C23_OnlyKnownTrailers ==
  Len(fnOut) = 1 =>
    LET lines == fnArgs
        out == fnOut[1]
    IN  /\ \A k \in 1..Len(out.trailerLines) :
             KnownKeyLine(out.trailerLines[k]) /\ ~UnknownKeyLine(out.trailerLines[k])
        /\ \E k \in 1..(Len(lines) + 1) :
             /\ \A j \in k..Len(lines) : trim(lines[j]) = << >> \/ KnownKeyLine(lines[j])
             /\ out.trailerLines = TrimmedNonBlank(SubSeq(lines, k, Len(lines)))
        /\ \A k \in 1..Len(lines) :
             Separator(lines, k) =>
               /\ out.trailerLines = [j \in 1..(Len(lines) - k) |-> trim(lines[k + j])]
               /\ out.body = JoinTrim(SubSeq(lines, 1, k - 1))
               /\ \A j \in 1..(k - 1) :
                    UnknownKeyLine(lines[j]) =>
                      \E n \in 1..Len(out.body) :
                        \/ out.body[n] = lines[j]
                        \/ n \in { 1, Len(out.body) } /\ trim(out.body[n]) = trim(lines[j])

\* an unknown-key line in the body, a blank separator, known trailers below
C23_Witness ==
  /\ Len(fnOut) = 1
  /\ \E k \in 2..Len(fnArgs) :
       /\ Separator(fnArgs, k)
       /\ UnknownKeyLine(fnArgs[k - 1])
       /\ Len(fnOut[1].trailerLines) = Len(fnArgs) - k
       /\ fnOut[1].body = SubSeq(fnArgs, 1, k - 1)
       /\ fnOut[1].body[k - 1] = fnArgs[k - 1]

\* ---------------------------------------------------------------- C24
\* the lines validate works on
ValidatedLines == TrimSplit(fnArgs)
\* known-key trailer lines at the end of the message directly follow body
\* line k, which is neither blank nor a known-key line
RunsIntoBody(lines, k) ==
  /\ k >= 2
  /\ k < Len(lines)
  /\ trim(lines[k]) # << >>
  /\ ~KnownKeyLine(lines[k])
  /\ \A j \in (k + 1)..Len(lines) : KnownKeyLine(lines[j])
Rules(diagnostics) == { diagnostics[k].rule : k \in 1..Len(diagnostics) }
HasError(diagnostics, rule) ==
  \E k \in 1..Len(diagnostics) :
    diagnostics[k].rule = rule /\ diagnostics[k].severity = "error"

\* C24: when the known-key trailer lines that end a message directly follow
\* a non-blank body line, validate recognises none of them (no diagnostic is
\* about the content of a trailer) and reports the errors intent-required
\* and scope-required.
C24_BlankLineEnforced ==
  Len(fnOut) = 1 /\ (\E k \in 1..Len(ValidatedLines) : RunsIntoBody(ValidatedLines, k)) =>
    /\ HasError(fnOut[1], "intent-required")
    /\ HasError(fnOut[1], "scope-required")
    /\ Rules(fnOut[1]) \cap
         { "intent-valid", "intent-single", "scope-max-entries", "scope-format",
           "session-format", "context-valid-json", "trailer-blank-line" } = { }

\* a message whose Intent and Scope trailers follow its body line directly
C24_Witness ==
  /\ Len(fnOut) = 1
  /\ Len(ValidatedLines) >= 4
  /\ \E k \in 2..(Len(ValidatedLines) - 2) :
       /\ RunsIntoBody(ValidatedLines, k)
       /\ \E j \in (k + 1)..Len(ValidatedLines) :
            TRAILER_RE(trim(ValidatedLines[j])).key = << "I", "n", "t", "e", "n", "t" >>
       /\ \E j \in (k + 1)..Len(ValidatedLines) :
            TRAILER_RE(trim(ValidatedLines[j])).key = << "S", "c", "o", "p", "e" >>
  /\ HasError(fnOut[1], "intent-required")

\* ---------------------------------------------------------------- C25
\* two runs agree on the first 20 scope keys, on commitCount, on the presence
\* of working memory and on the budget numbers (the intent vocabulary is the
\* same constant for every run)
RunsAgree(a, b) ==
  /\ \A k \in 1..ScopeSampleSize :
       /\ k <= Len(a.env.scopeKeys) <=> k <= Len(b.env.scopeKeys)
       /\ k <= Len(a.env.scopeKeys) => a.env.scopeKeys[k] = b.env.scopeKeys[k]
  /\ a.env.index.commitCount = b.env.index.commitCount
  /\ IsNull(a.env.workingMemory) <=> IsNull(b.env.workingMemory)
  /\ a.replConfig.maxIterations = b.replConfig.maxIterations
  /\ a.replConfig.maxLlmCalls = b.replConfig.maxLlmCalls
\* the runs differ in what the prompt must not depend on
RunsDifferBeyond(a, b) ==
  \/ a.env.index.hashes # b.env.index.hashes
  \/ a.env.workingMemory # b.env.workingMemory
  \/ a.env.scopeKeys # b.env.scopeKeys

\* C25: two runs that agree on the first 20 scope keys, commitCount, the
\* presence of working memory and the budget numbers build the same system
\* prompt, whatever their indexes hold and whatever scope keys follow the
\* 20th; and no prompt holds a commit hash of its index.
C25_PromptDependsOnlyOnShape ==
  Len(fnOut) = 2 =>
    /\ RunsAgree(fnArgs[1], fnArgs[2]) => fnOut[1] = fnOut[2]
    /\ \A r \in 1..2 : \A k \in 1..Len(fnOut[r]) :
         \A h \in 1..Len(fnArgs[r].env.index.hashes) :
           fnOut[r][k] # fnArgs[r].env.index.hashes[h]

\* two runs with more than 20 scope keys that differ after the 20th and in
\* their commits have built the same prompt
C25_Witness ==
  /\ Len(fnOut) = 2
  /\ RunsAgree(fnArgs[1], fnArgs[2])
  /\ Len(fnArgs[1].env.scopeKeys) > ScopeSampleSize
  /\ fnArgs[1].env.scopeKeys # fnArgs[2].env.scopeKeys
  /\ fnArgs[1].env.index.hashes # fnArgs[2].env.index.hashes
  /\ fnOut[1] = fnOut[2]

\* ---------------------------------------------------------------- C26
\* C26: a configuration loaded right after it was saved equals the saved one
\* on every property, the REPL properties included.
C26_RoundTrip ==
  Len(fnArgs) = 1 /\ Len(fnOut) = 1 =>
    \A f \in DOMAIN fnArgs[1] : f \in DOMAIN fnOut[1] /\ fnOut[1][f] = fnArgs[1][f]

\* ---------------------------------------------------------------- C27
REPL_DEFAULTS ==
  [replEnabled |-> Bool(FALSE),
   replMaxIterations |-> Num("6"),
   replMaxLlmCalls |-> Num("10"),
   replTimeoutBudgetMs |-> Num("15000"),
   replMaxOutputTokens |-> Num("512")]
FullDefaults == DEFAULT_CONFIG @@ REPL_DEFAULTS
\* the file holds a version-1 object
VersionOne(fs) ==
  /\ fs.isRepo
  /\ ~IsNull(fs.config)
  /\ fs.config[1].valid
  /\ "version" \in DOMAIN fs.config[1].data
  /\ fs.config[1].data["version"] = << "1" >>

\* C27: loadRlmConfig returns the full defaults, the REPL defaults included,
\* when the file is missing, does not parse or is not of version 1, and for a
\* version-1 file it returns each property as the file gives it when the file
\* gives it with the right type, and its default otherwise.
C27_DefaultsFilled ==
  Len(fnOut) = 1 =>
    /\ ~VersionOne(files) => fnOut[1] = FullDefaults
    /\ VersionOne(files) =>
         LET data == JsonParse(files.config[1]) IN
         /\ DOMAIN fnOut[1] = DOMAIN FullDefaults
         /\ \A f \in DOMAIN FullDefaults :
              fnOut[1][f] = IF f \in DOMAIN data /\ data[f].type = FullDefaults[f].type
                            THEN data[f] ELSE FullDefaults[f]

\* ---------------------------------------------------------------- C28
\* a run that wrote: its prerequisites held and it was no dry run
Effective(run) == run.flags.prerequisites /\ ~run.flags.dryRun
\* a successful install run that wrote the hooks too
FullInstall(run) ==
  Effective(run) /\ ~run.flags.uninstall /\ ~run.flags.skipHooks /\ run.ok
\* the last run that wrote was a full install
Installed ==
  \E k \in 1..Len(fnOut) :
    FullInstall(fnOut[k]) /\ \A j \in (k + 1)..Len(fnOut) : ~Effective(fnOut[j])
\* the hook entries of an event in a settings file
EntriesOf(file, eventType) ==
  IF IsNull(file) \/ ~file[1].valid \/ IsNull(file[1].json.hooks) THEN << >>
  ELSE IF eventType \in DOMAIN file[1].json.hooks[1] THEN file[1].json.hooks[1][eventType]
  ELSE << >>
RlmCount(entries) == Cardinality({ k \in 1..Len(entries) : isRlmHook(entries[k]) })
\* the entries that are no RLM hooks, in their order
RECURSIVE NonRlm(_)
NonRlm(entries) ==
  IF Len(entries) = 0 THEN << >>
  ELSE (IF isRlmHook(entries[1]) THEN << >> ELSE << entries[1] >>) \o NonRlm(Tail(entries))
\* the number of places of a text at which a section stands
SectionCopies(content, section) ==
  Cardinality({ k \in 1..Len(content) :
                  k + Len(section) - 1 <= Len(content)
                  /\ SubSeq(content, k, k + Len(section) - 1) = section })
\* the section the installer ships for a tag
ShippedSection(tag) == << OpenTag(tag), Text("instructions"), Break, CloseTag(tag) >>
TextOf(file) == IF IsNull(file) THEN << >> ELSE file[1]
EventTypes == { "UserPromptSubmit", "PostToolUse", "Stop", "PreToolUse" }

\* C28: after one or more install runs, settings.json holds exactly one RLM
\* hook entry for each of UserPromptSubmit, PostToolUse and Stop, CLAUDE.md
\* holds each RLM section exactly once, and the hook entries that were there
\* before and are no RLM hooks are all still there.
C28_InstallIdempotent ==
  Installed =>
    /\ \A eventType \in { "UserPromptSubmit", "PostToolUse", "Stop" } :
         RlmCount(EntriesOf(files.settings, eventType)) = 1
    /\ \A k \in 1..Len(CLAUDE_MD_SECTION_TAGS) :
         SectionCopies(TextOf(files.claudeMd), ShippedSection(CLAUDE_MD_SECTION_TAGS[k])) = 1
    /\ \A eventType \in EventTypes :
         NonRlm(EntriesOf(files.settings, eventType)) = NonRlm(EntriesOf(fnArgs.settings, eventType))

\* ---------------------------------------------------------------- C29
\* a successful uninstall run that wrote the hooks too
FullUninstall(run) ==
  Effective(run) /\ run.flags.uninstall /\ ~run.flags.skipHooks /\ run.ok
\* the tasks of a deno.json file
TasksIn(file) ==
  IF IsNull(file) \/ ~file[1].valid THEN << >> ELSE TasksOf(file[1].json)
\* the runs of text that stand outside the tagged sections of a text
RECURSIVE TextOutside(_)
TextOutside(content) ==
  IF Len(content) = 0 THEN << >>
  ELSE IF content[1].kind = "open" /\ FirstAt(content, CloseTag(content[1].text)) # 0
    THEN TextOutside(SubSeq(content, FirstAt(content, CloseTag(content[1].text)) + 1,
                            Len(content)))
  ELSE (IF content[1].kind = "text" THEN << content[1] >> ELSE << >>)
       \o TextOutside(Tail(content))
RlmTags ==
  { OpenTag(CLAUDE_MD_SECTION_TAGS[k]) : k \in 1..Len(CLAUDE_MD_SECTION_TAGS) }
  \cup { CloseTag(CLAUDE_MD_SECTION_TAGS[k]) : k \in 1..Len(CLAUDE_MD_SECTION_TAGS) }

\* C29: after an install and then an uninstall, every hook entry, every
\* deno.json task and every run of CLAUDE.md text that was there before the
\* install (and belongs to no RLM hook or section) is there with its value,
\* and no RLM hook, no task under an RLM key and no RLM section is left.
C29_UninstallRestores ==
  Len(fnOut) = 2 /\ FullInstall(fnOut[1]) /\ FullUninstall(fnOut[2]) =>
    /\ \A eventType \in EventTypes :
         EntriesOf(files.settings, eventType) = NonRlm(EntriesOf(fnArgs.settings, eventType))
    /\ \A key \in DOMAIN TasksIn(fnArgs.deno) :
         key \in DOMAIN TasksIn(files.deno) /\ TasksIn(files.deno)[key] = TasksIn(fnArgs.deno)[key]
    /\ DOMAIN TasksIn(files.deno) \cap RLM_TASK_KEYS = { }
    /\ TextOutside(TextOf(files.claudeMd)) = TextOutside(TextOf(fnArgs.claudeMd))
    /\ \A k \in 1..Len(TextOf(files.claudeMd)) : TextOf(files.claudeMd)[k] \notin RlmTags

\* ---------------------------------------------------------------- C30
\* the messages of one kind in a channel
RECURSIVE OfKind(_, _)
OfKind(channel, kind) ==
  IF Len(channel) = 0 THEN 0
  ELSE (IF Head(channel).kind = kind THEN 1 ELSE 0) + OfKind(Tail(channel), kind)
\* the execute requests sent whose result the host has not received: those on
\* their way to the child, those whose fragment is in the child, and those
\* whose result is on its way to the host
Outstanding == OfKind(toChild, "execute") + Cardinality(frags) + OfKind(toHost, "result")

\* C30: while the sandbox lives, at most one execute request has been sent to
\* the child without its result having been received by the host.
C30_OneExecuteOutstanding == workerAlive => Outstanding <= 1

\* ---------------------------------------------------------------- C31
\* the request ids the child has handed out
RequestIds == 1..(nextRequestId - 1)
\* the entries of a sequence of records that carry one id
RECURSIVE WithId(_, _)
WithId(entries, id) ==
  IF Len(entries) = 0 THEN 0
  ELSE (IF Head(entries).id = id THEN 1 ELSE 0) + WithId(Tail(entries), id)

\* C31: for every request the child has posted, the host has called the
\* injected effect at most once (the calls that have not returned and the git
\* calls made), and at most one response with the id of the request is on its
\* way or still to be posted.
C31_OneEffectOneResponse ==
  \A id \in RequestIds :
    /\ WithId(inflight, id) + WithId(responses, id) <= 1
    /\ WithId(gitCalls, id) <= 1

\* ---------------------------------------------------------------- C32
\* the fragments a step lets go on: they awaited a request and now run
Resumed == { f \in frags : f.wait # 0 /\ [f EXCEPT !.wait = 0] \in frags' }
\* the ids a step adds to the pending map, and those it removes
Registered == pendingRequests' \ pendingRequests
Settled == pendingRequests \ pendingRequests'
\* a step in which the child takes a response
TakesResponse == Len(responses) > 0 /\ responses' = Tail(responses)

\* C32: in the child, an id registered as pending is the next unused one and
\* is never handed out again; the pending requests are awaited by different
\* fragments; only a response settles a request, it settles the pending
\* request with its own id and no other, removes it from the pending map and
\* lets go on the fragment awaiting exactly that id; a response whose id is
\* not pending changes neither the pending map nor any fragment.
C32_Step ==
  /\ nextRequestId' >= nextRequestId
  /\ \A id \in Registered :
       /\ id = nextRequestId
       /\ nextRequestId' = id + 1
       /\ \E f \in frags' : f.wait = id
  /\ \A id \in Settled : TakesResponse /\ Head(responses).id = id
  /\ \A f \in Resumed :
       /\ TakesResponse
       /\ Head(responses).id = f.wait
       /\ f.wait \in Settled
  /\ (TakesResponse /\ Head(responses).id \notin pendingRequests) =>
       (pendingRequests' = pendingRequests /\ frags' = frags)
  /\ (TakesResponse /\ Head(responses).id \in pendingRequests) =>
       Settled = { Head(responses).id }
C32_RequestsMatched == [][C32_Step]_vars
\* two requests are pending, awaited by two fragments, and a response to one
\* of them is about to be taken: the second request of the sandbox
C32_Witness ==
  /\ Cardinality(pendingRequests) = 2
  /\ \E f \in frags, g \in frags : f # g /\ f.wait = 1 /\ g.wait = 2
  /\ Len(responses) = 1
  /\ Head(responses).id = 2

\* ---------------------------------------------------------------- C33
\* a step in which the host takes an llm-request of the child
TakesLlmRequest ==
  /\ Len(toHost) > 0
  /\ Head(toHost).kind = "llm-request"
  /\ toHost' = Tail(toHost)
\* the step posts the budget rejection for the request it takes
PostsBudgetRejection ==
  \E k \in (Len(responses) + 1)..Len(responses') :
    responses'[k] = Response("llm-response", Head(toHost).id, FALSE, BudgetMessage)

\* C33: when the host takes a callLlm request of the sandbox code, it calls
\* the LLM effect and raises llmCallCount only if llmCallCount < maxLlmCalls at
\* that moment; otherwise it posts the rejection 'LLM call budget exhausted'
\* for the request and leaves the counter and the effect alone.
C33_Step ==
  TakesLlmRequest =>
    IF llmCallCount < maxLlmCalls
    THEN TRUE
    ELSE /\ PostsBudgetRejection
         /\ llmCallCount' = llmCallCount
         /\ llmEffects' = llmEffects
         /\ inflight' = inflight
C33_SubCallBudget == [][C33_Step]_vars

\* ---------------------------------------------------------------- C34
\* no execute of the run has timed out: every execute so far was sent after
\* the result of the one before it had been received
NoTimeoutSoFar ==
  /\ staleHandlers = 0
  /\ \A k \in 1..Len(trace) : trace[k].executionResult # << "ERROR: " >> \o TimedOutMessage
\* a step in which the child takes an execute message
TakesExecute ==
  /\ Len(toChild) > 0
  /\ Head(toChild).kind = "execute"
  /\ toChild' = Tail(toChild)
\* a step in which the child posts a result message
PostsResult ==
  /\ Len(toHost') = Len(toHost) + 1
  /\ toHost'[Len(toHost')].kind = "result"
\* the answer was given by the fragment of the exec-th execute
AnsweredBy(answer, exec) == IsNull(answer) \/ answer[1] \in DoneAnswers(exec)
C34_Step ==
  /\ TakesExecute =>
       /\ stdoutBuffer' = << >>
       /\ doneSignal' = None
       /\ globals' = globals
  /\ PostsResult =>
       LET out == toHost'[Len(toHost')].body
       IN /\ out.stdout = stdoutBuffer'
          /\ out.done = ~IsNull(doneSignal')
          /\ out.doneAnswer = doneSignal'
C34_State ==
  NoTimeoutSoFar =>
    /\ Cardinality(frags) <= 1
    /\ \A f \in frags : f.exec = execCount /\ AnsweredBy(doneSignal, f.exec)
    /\ (Len(toHost) > 0 /\ Head(toHost).kind = "result") =>
         AnsweredBy(Head(toHost).body.doneAnswer, execCount)

\* C34: the child empties the stdout buffer and the done signal when it takes
\* an execute and leaves the global scope as it is; a result carries the
\* buffer and the signal as they stand when it is posted; and while every
\* execute is sent after the one before it has completed, only the fragment
\* of the latest execute is in the child, and the done signal and the answer
\* of a result are those of that fragment, never of an earlier one.
C34_FreshOutput == [][C34_Step]_vars /\ []C34_State
\* the first execute printed, called done('') and set a global variable; the
\* run went on, and the fragment of the second execute runs with an empty
\* buffer, no done signal and the variable still set
C34_Witness ==
  /\ NoTimeoutSoFar
  /\ Len(output) = 1
  /\ Len(output[1].stdout) > 0
  /\ output[1].done
  /\ frags = { [exec |-> 2, wait |-> 0] }
  /\ stdoutBuffer = << >>
  /\ doneSignal = None
  /\ globals = 1

\* ---------------------------------------------------------------- C35
\* the executed fragment that ended the run by done(answer), if any: it is
\* the last of the trace and gets no feedback turn
EndedByDone == pc = "done" /\ Len(output) = 1 /\ DoneSignalled(output[1])
\* the fragments of the trace that got a feedback turn
FedBack == IF EndedByDone THEN Len(trace) - 1 ELSE Len(trace)
\* the feedback turn that belongs to a trace entry
FeedbackOf(entry) ==
  LET er == entry.executionResult IN
  IF er = << "ERROR: " >> \o TimedOutMessage THEN TimeoutTurn
  ELSE IF Len(er) > 0 /\ er[1] = "ERROR: "
  THEN ErrorTurn([error |-> Some(<< er[2] >>), stdout |-> SubSeq(er, 3, Len(er))])
  ELSE OutputTurn([stdout |-> er])
\* the turns after the system turn, the task turn and the pairs of the
\* fragments fed back
OpenTurns == SubSeq(conversation, 3 + 2 * FedBack, Len(conversation))
IsAssistantTurnWith(turn, c) ==
  turn.role = "assistant" /\ extractCodeBlock(turn.content) = Some(c)

\* C35: after the start the conversation is the system turn, the task turn,
\* then for every fragment of the trace, in iteration order, the assistant turn
\* with its code followed by its one feedback turn (none for the fragment that
\* ended the run by done), then nothing, or the assistant turn of the fragment
\* being executed, or the request for a final text answer; and an execute is
\* sent only after its assistant turn was appended.
C35_ConversationOrdered ==
  pc # "start" =>
    /\ Len(conversation) >= 2
    /\ conversation[1] = SystemTurn
    /\ conversation[2] = TaskTurn
    /\ \A k \in 1..Len(trace) :
         /\ trace[k].iteration = k - 1
         /\ Len(conversation) >= 2 * k + 1
         /\ IsAssistantTurnWith(conversation[2 * k + 1], trace[k].codeGenerated)
    /\ \A k \in 1..FedBack :
         /\ Len(conversation) >= 2 * k + 2
         /\ conversation[2 * k + 2] = FeedbackOf(trace[k])
    /\ IF pc \in { "awaitExec", "awaitInit" }
       THEN /\ Len(OpenTurns) = 1
            /\ IsAssistantTurnWith(OpenTurns[1], code)
            /\ Len(trace) = i
       ELSE IF pc = "awaitFinal"
       THEN OpenTurns = << ExhaustedTurn >>
       ELSE IF pc = "awaitRoot"
       THEN OpenTurns = << >> /\ Len(trace) = i
       ELSE IF EndedByDone
       THEN Len(OpenTurns) = 1 /\ IsAssistantTurnWith(OpenTurns[1], code)
       ELSE OpenTurns \in { << >>, << ExhaustedTurn >> }
    /\ execCount <= Len(trace) + (IF pc = "awaitExec" THEN 1 ELSE 0)
\* two fragments were executed, the first timed out and the second printed,
\* and the run is over
C35_Witness ==
  /\ pc = "done"
  /\ Len(trace) = 2
  /\ Len(conversation) = 6
  /\ conversation[4] = TimeoutTurn
  /\ conversation[6].content[1] = "Output:"

\* ---------------------------------------------------------------- C36
\* the fragment of the execute the host is waiting for has run to its end:
\* its execute message was taken and the fragment is no longer in the child
CurrentFinished ==
  /\ \A k \in 1..Len(toChild) : ~(toChild[k].kind = "execute" /\ toChild[k].id = execCount)
  /\ \A f \in frags : f.exec # execCount
\* a result message is about to resolve the outstanding execute
ResultArrives ==
  /\ workerAlive
  /\ pc = "awaitExec"
  /\ Len(toHost) > 0
  /\ Head(toHost).kind = "result"

\* C36: a result that resolves an execute was produced by running the code of
\* that execute (its fragment has run to its end and posted it), its answer is
\* an answer of that fragment, and the answer runRepl returns after done() is
\* one given by the fragment it dispatched last.
C36_ResultOfSameCode ==
  /\ ResultArrives =>
       /\ CurrentFinished
       /\ AnsweredBy(Head(toHost).body.doneAnswer, execCount)
  /\ EndedByDone => result.answer \in DoneAnswers(execCount)

\* ---------------------------------------------------------------- C37
\* the element is an allow-listed long flag, with or without =value
IsAllowedLongFlag(arg) == IsLongArg(arg) /\ BeforeEquals(arg) \in LongFlags

\* C37: every element of a successful sanitizeGitLogArgs result that begins
\* with "-" is an allow-listed long flag (possibly with =value) or exactly
\* -n; no other option of git is passed on.
C37_OnlyAllowedOptions ==
  (Sanitized /\ sanOut[1].ok) =>
    \A k \in 1..Len(sanOut[1].value) :
      LET arg == sanOut[1].value[k]
      IN (Len(arg) > 0 /\ arg[1] = "-") => (IsAllowedLongFlag(arg) \/ arg = DashN)

\* ---------------------------------------------------------------- C38
\* the step starts an invocation of the injected LLM effect
StartsLlmEffect == llmEffects' # llmEffects
\* the step is the host admitting a callLlm sub-call of sandbox code: it takes
\* an llm-request while the count is below maxLlmCalls, and the driver stays
\* where it is
AdmitsSubCall ==
  /\ TakesLlmRequest
  /\ llmCallCount < maxLlmCalls
  /\ pc' = pc
  /\ i' = i

\* C38 as stated: once the wall-clock budget of the run has been exceeded, no
\* further invocation of the injected LLM effect is started, neither a root
\* call nor a callLlm sub-call of sandbox code.
C38_NoLlmCallAfterBudget == [][expired => ~StartsLlmEffect]_vars

\* C38 (amended): once the wall-clock budget of the run has been exceeded, the
\* driver starts no further root call and no forced final call; the only
\* invocations of the LLM effect still started are callLlm sub-calls of sandbox
\* code, which the host admits while llmCallCount is below maxLlmCalls.
C38_NoDriverCallAfterBudget ==
  [][expired =>
       /\ (pc # "awaitRoot" => pc' # "awaitRoot")
       /\ (pc # "awaitFinal" => pc' # "awaitFinal")
       /\ (StartsLlmEffect => AdmitsSubCall)]_vars
\* the budget ran out during an iteration; the loop ended with iterations and
\* LLM calls left, and the run returned without a further call of the driver
C38_Witness ==
  /\ pc = "done"
  /\ expired
  /\ Len(exitView) = 1
  /\ exitView[1].expired
  /\ exitView[1].llmCallCount < maxLlmCalls
  /\ i < maxIterations
  /\ Len(trace) >= 1
  /\ llmEffects = llmCallCount

\* ---------------------------------------------------------------- C39
\* The run under the scheduling the code relies on.  runRepl starts once it is
\* called; a root or final call of the LLM effect returns, with a response or
\* with a failure; the timer of an outstanding execute fires unless a result
\* clears it; the host's event loop handles every message posted to it; the
\* Worker's own start-up code handles init; a response posted to the child
\* leaves the channel.  Nothing is assumed of sandbox code: an execute
\* message need never be taken, a fragment need never take a step or post a
\* result, and a sub-call or git effect need never return.
Fairness ==
  /\ WF_vars(ReplStart)
  /\ WF_vars(RootLlmAnswers \/ RootLlmFails)
  /\ WF_vars(FinalLlmAnswers \/ FinalLlmFails)
  /\ WF_vars(ExecTimeout)
  /\ WF_vars(HostRecvReady)
  /\ WF_vars(HostRecvLlmRequest)
  /\ WF_vars(HostRecvGitlogRequest)
  /\ WF_vars(HostRecvResult)
  /\ WF_vars(ChildRecvInit)
  /\ WF_vars(ChildRecvResponse)
SpecFair == Init /\ [][Next]_vars /\ Fairness

\* runRepl has returned and the sandbox is terminated
Terminated == pc = "done" /\ ~workerAlive /\ terminateCount = 1

\* C39: runRepl always terminates.  In every run in which each root and final
\* call of the LLM effect returns, runRepl eventually returns a result and the
\* sandbox is terminated, also when a fragment never posts a result.
C39_AlwaysTerminates == <>Terminated
\* the run has returned after an execute that timed out, while the fragment
\* of that execute is still in the child and has posted no result
C39_Witness ==
  /\ Terminated
  /\ Len(trace) >= 1
  /\ trace[1].executionResult = TimeoutTrace(0, trace[1].codeGenerated, 0).executionResult
  /\ \E f \in frags : f.exec = 1

\* ---------------------------------------------------------------- C40
\* parseTrailers: the values of each known key, in the order of the lines
parseTrailers(lines) == [key \in KNOWN_TRAILER_KEYS |-> TrailerValues(lines, key)]
\* lines.slice(subjectIndex + 1).join("\n"), split again into lines: the text
\* below the header, the empty line when there is none
TextAfterHeader(lines) == IF Len(lines) = 1 THEN << << >> >> ELSE Tail(lines)
\* the trailers the parser extracts from a commit message
ParsedTrailers(message) ==
  parseTrailers(splitHeaderBodyTrailers(TextAfterHeader(TrimSplit(message))).trailerLines)

\* inputs: a header and the lines below it
TrailerLinePool ==
  { << >>,
    << "t", "e", "x", "t" >>,
    << "I", "n", "t", "e", "n", "t", ":", " ", "f", "i", "x", "-", "d", "e", "f", "e", "c", "t" >>,
    << "S", "c", "o", "p", "e", ":", " ", "a", "/", "b" >>,
    << "C", "o", "-", "A", "u", "t", "h", "o", "r", "e", "d", "-", "B", "y", ":", " ", "x" >> }
CommitMessages ==
  { << << "f", "i", "x", ":", " ", "a" >> >> \o below : below \in ListsUpTo(TrailerLinePool, MaxLines) }

\* the parser and the validator applied to the same commit message
ParseAndValidate ==
  /\ IsNull(fnOut)
  /\ fnOut' = Some([trailers |-> ParsedTrailers(fnArgs), diagnostics |-> validate(fnArgs)])
  /\ UNCHANGED << runVars, fsVars, sanVars, queryVars, matchVars, wmVars, ixVars, fnArgs >>

InitAgree ==
  /\ ReplIdle
  /\ SanIdle
  /\ QueryIdle
  /\ MatchIdle
  /\ MemoryIdle
  /\ IndexIdle
  /\ FilesIdle
  /\ fnArgs \in CommitMessages
  /\ fnOut = None

SpecAgree == InitAgree /\ [][ParseAndValidate]_vars

Reports(diagnostics, rule) == \E k \in 1..Len(diagnostics) : diagnostics[k].rule = rule
IntentKey == << "i", "n", "t", "e", "n", "t" >>
ScopeKey == << "s", "c", "o", "p", "e" >>

\* C40: the validator and the parser agree on the trailer block.  Whenever
\* the parser extracts an Intent and a Scope trailer from a commit message,
\* validate reports neither intent-required nor scope-required.
C40_ValidatorAgreesWithParser ==
  (Len(fnOut) = 1 /\ Len(fnOut[1].trailers[IntentKey]) > 0
                  /\ Len(fnOut[1].trailers[ScopeKey]) > 0)
    => /\ ~Reports(fnOut[1].diagnostics, "intent-required")
       /\ ~Reports(fnOut[1].diagnostics, "scope-required")

====
